---- MODULE Spec2Model ----
(***************************************************************************)
(* A model of clavis-js: the handshake (performHandshake), the PSK option  *)
(* normalisation (normalizePsk), the framed encrypted packet stream        *)
(* (EncryptedReader / EncryptedWriter) and the stream adapter              *)
(* (createStreamAdapter).                                                  *)
(*                                                                         *)
(* Bytes on the wire are kept as blocks [v, n, from, to]: the bytes         *)
(* from+1..to of the n-byte value v.  Values are flat sequences of         *)
(* integers: a nonce and a PSK are their bytes; the outputs of the         *)
(* cryptographic primitives are free terms <<tag, ...>> (the primitives    *)
(* are taken to be ideal); a plaintext is <<its length, its content>>.     *)
(***************************************************************************)
EXTENDS Integers, Sequences, FiniteSets, TLC

VARIABLES
  opt,      \* opt[p]: the options peer p passes to EncryptedStream.new
  peer,     \* peer[p]: the locals of p's performHandshake and its stream
  wire,     \* wire[p]: the bytes p has written that the other end has not read
  atk,      \* an active counterpart: the values it has read, how many it has sent
  ad,       \* ad[p]: the state of p's stream adapter (createStreamAdapter)
  rd,       \* rd[p]: p's readPacket in progress and what its reads returned
  sent,     \* sent[p]: the writePacket calls p has made, with their outcome
  chunks,   \* the number of 'data' events the channel has raised
  chan,     \* what has happened to the channel: bytes changed in flight, its end
  wr,       \* wr[p]: p's writePacket in progress: what it has still to write
  codec,    \* a call of the bincode functions: its argument, buffer and result
  client    \* a ClavisClient: its fields, its sockets, timers and calls under way

vars == <<opt, peer, wire, atk, ad, rd, sent, chunks, chan, wr, codec, client>>

Peers == {"A", "B"}
Other(p) == IF p = "A" THEN "B" ELSE "A"

----------------------------------------------------------------------------
(* Bounds of the model. *)

\* The bytes of a nonce at its first and last index range over 0..MaxNonceByte.
MaxNonceByte == 1
\* Frames a peer writes after its handshake has returned.
MaxFrames == 1
\* 32-byte values an active counterpart injects.
MaxInject == 3

----------------------------------------------------------------------------
(* Program constants. *)

NonceLen == 32
KeyLen == 32
MinPskLen == 16
FrameNonceLen == 24
TagLen == 16
LenPrefixLen == 4
DEFAULT_MAX_PACKET_SIZE == 65536

\* Tags of the free terms that stand for the outputs of the primitives.
TPub == 1001
TDh == 1002
TSha == 1003
THmac == 1004
THkdf == 1005
TCt == 1006
TFrameNonce == 1007
TGarbage == 1008
TTampered == 1009

----------------------------------------------------------------------------
(* Bytes and strings. *)

Fill(b, n) == [i \in 1..n |-> b]

Min(a, b) == IF a <= b THEN a ELSE b
Max(a, b) == IF a >= b THEN a ELSE b

\* Buffer.from(s, 'utf-8') of a string given as its code points (below U+10000).
RECURSIVE Utf8Encode(_)
Utf8Encode(s) ==
  IF s = <<>> THEN <<>>
  ELSE LET c == Head(s)
           b == IF c < 128 THEN <<c>>
                ELSE IF c < 2048 THEN <<192 + (c \div 64), 128 + (c % 64)>>
                ELSE <<224 + (c \div 4096), 128 + ((c \div 64) % 64), 128 + (c % 64)>>
       IN b \o Utf8Encode(Tail(s))

\* The 6-bit value of a base64 character (64: not a base64 character).
B64Index(c) ==
  IF c >= 65 /\ c <= 90 THEN c - 65
  ELSE IF c >= 97 /\ c <= 122 THEN c - 71
  ELSE IF c >= 48 /\ c <= 57 THEN c + 4
  ELSE IF c = 43 \/ c = 45 THEN 62
  ELSE IF c = 47 \/ c = 95 THEN 63
  ELSE 64

B64Char(v) ==
  IF v < 26 THEN v + 65
  ELSE IF v < 52 THEN v + 71
  ELSE IF v < 62 THEN v - 4
  ELSE IF v = 62 THEN 43
  ELSE 47

\* The characters the decoder uses: it stops at the first '=' and skips every
\* other character that is not of the alphabet.
RECURSIVE B64Sextets(_)
B64Sextets(s) ==
  IF s = <<>> \/ Head(s) = 61 THEN <<>>
  ELSE IF B64Index(Head(s)) < 64 THEN <<B64Index(Head(s))>> \o B64Sextets(Tail(s))
  ELSE B64Sextets(Tail(s))

\* Buffer.from(s, 'base64')
B64Decode(s) ==
  LET q == B64Sextets(s)
      n == (Len(q) * 6) \div 8
      Byte(j) ==
        LET g == 4 * (j \div 3)
            r == j % 3
        IN IF r = 0 THEN q[g + 1] * 4 + (q[g + 2] \div 16)
           ELSE IF r = 1 THEN (q[g + 2] % 16) * 16 + (q[g + 3] \div 4)
           ELSE (q[g + 3] % 4) * 64 + q[g + 4]
  IN [j \in 1..n |-> Byte(j - 1)]

\* buf.toString('base64')
B64Encode(b) ==
  LET n == Len(b)
      At(i) == IF i <= n THEN b[i] ELSE 0
      Char(k) ==
        LET g == 3 * (k \div 4)
            r == k % 4
        IN IF r = 0 THEN B64Char(At(g + 1) \div 4)
           ELSE IF r = 1 THEN B64Char((At(g + 1) % 4) * 16 + (At(g + 2) \div 16))
           ELSE IF r = 2 THEN (IF g + 2 > n THEN 61
                               ELSE B64Char((At(g + 2) % 16) * 4 + (At(g + 3) \div 64)))
           ELSE (IF g + 3 > n THEN 61 ELSE B64Char(At(g + 3) % 64))
  IN [k \in 1..(4 * ((n + 2) \div 3)) |-> Char(k - 1)]

----------------------------------------------------------------------------
(* The psk option. *)

NoPsk == [kind |-> "undefined", data |-> <<>>]
PskBytes(b) == [kind |-> "bytes", data |-> b]
PskString(s) == [kind |-> "string", data |-> s]

\* normalizePsk: undefined and the empty string are falsy and give undefined; a
\* Uint8Array is used as it is; a string that is the canonical base64 of its own
\* decoding is decoded, any other string is UTF-8 encoded.
NormalizePsk(psk) ==
  IF psk.kind = "undefined" \/ (psk.kind = "string" /\ psk.data = <<>>) THEN NoPsk
  ELSE IF psk.kind = "bytes" THEN psk
  ELSE IF B64Encode(B64Decode(psk.data)) = psk.data THEN PskBytes(B64Decode(psk.data))
  ELSE PskBytes(Utf8Encode(psk.data))

----------------------------------------------------------------------------
(* The primitives of crypto.ts, as free terms. *)

\* generateRandomBytes(32): the nonces the model draws.
NonceSet ==
  { [i \in 1..NonceLen |-> IF i = 1 THEN a ELSE IF i = NonceLen THEN b ELSE 0] :
      a \in 0..MaxNonceByte, b \in 0..MaxNonceByte }

\* generateX25519KeyPair: each party draws a secret of its own.
SecretOf(p) == IF p = "A" THEN 1 ELSE 2
Pub(s) == <<TPub, s>>
\* A point of small order, which x25519.getSharedSecret refuses.
LowOrderPoint == <<TPub, 0>>

\* computeSharedSecret: <<>> stands for the KeyExchange failure it throws.
ComputeSharedSecret(s, pk) ==
  IF pk = LowOrderPoint THEN <<>>
  ELSE IF Len(pk) = 2 /\ pk[1] = TPub THEN <<TDh, Min(s, pk[2]), Max(s, pk[2])>>
  ELSE <<TDh, s, s>> \o pk

Sha256Hash(d) == <<TSha>> \o d
HmacSha256(k, d) == <<THmac, Len(k)>> \o k \o d
\* new TextEncoder().encode("enc"), ...("dec")
InfoEnc == <<101, 110, 99>>
InfoDec == <<100, 101, 99>>
HkdfExpand(ss, salt, info) == <<THkdf, Len(ss)>> \o info \o ss \o salt

\* XChaCha20Poly1305Cipher.generateNonce: 24 random bytes, drawn by number.
FrameNonce(i) == <<TFrameNonce, i>>
\* A serialized packet of n bytes with the content c.
Plaintext(n, c) == <<n, c>>
PtLen(pt) == pt[1]

\* XChaCha20Poly1305Cipher.encrypt: the ciphertext with its tag, |pt| + 16 bytes.
Encrypt(key, nonce, pt) == <<TCt>> \o pt \o nonce \o key
\* A decryption that does not bind the ciphertext to the nonce.
DecryptAnyNonce(key, nonce, ct) ==
  IF Len(ct) >= 3 + Len(key) /\ ct[1] = TCt
       /\ SubSeq(ct, Len(ct) - Len(key) + 1, Len(ct)) = key
  THEN [ok |-> TRUE, pt |-> SubSeq(ct, 2, 3)]
  ELSE [ok |-> FALSE, pt |-> <<>>]

\* A decryption that does not bind the ciphertext to the key.
DecryptAnyKey(key, nonce, ct) ==
  IF Len(ct) >= 3 + Len(nonce) /\ ct[1] = TCt
       /\ SubSeq(ct, 4, 3 + Len(nonce)) = nonce
  THEN [ok |-> TRUE, pt |-> SubSeq(ct, 2, 3)]
  ELSE [ok |-> FALSE, pt |-> <<>>]

\* XChaCha20Poly1305Cipher.decrypt: ok is FALSE for the Decryption failure it
\* throws (another key, another nonce, or bytes that are no ciphertext).
Decrypt(key, nonce, ct) ==
  IF Len(ct) >= 3 /\ ct[1] = TCt /\ ct = Encrypt(key, nonce, SubSeq(ct, 2, 3))
  THEN [ok |-> TRUE, pt |-> SubSeq(ct, 2, 3)]
  ELSE [ok |-> FALSE, pt |-> <<>>]

\* constantTimeEquals
ConstantTimeEquals(a, b) ==
  IF Len(a) # Len(b) THEN FALSE
  ELSE \A i \in 1..Len(a) : a[i] = b[i]

----------------------------------------------------------------------------
(* The channel: what read(n) and write(data) of the stream do to the bytes *)
(* in flight.                                                              *)

Block(v, n) == [v |-> v, n |-> n, from |-> 0, to |-> n]

RECURSIVE Avail(_)
Avail(ch) == IF ch = <<>> THEN 0 ELSE (Head(ch).to - Head(ch).from) + Avail(Tail(ch))

\* The first k bytes of ch.
RECURSIVE Take(_, _)
Take(ch, k) ==
  IF k = 0 \/ ch = <<>> THEN <<>>
  ELSE LET h == Head(ch)
           sz == h.to - h.from
       IN IF sz <= k THEN <<h>> \o Take(Tail(ch), k - sz)
          ELSE <<[h EXCEPT !.to = h.from + k]>>

\* ch without its first k bytes.
RECURSIVE Drop(_, _)
Drop(ch, k) ==
  IF k = 0 \/ ch = <<>> THEN ch
  ELSE LET h == Head(ch)
           sz == h.to - h.from
       IN IF sz <= k THEN Drop(Tail(ch), k - sz)
          ELSE <<[h EXCEPT !.from = h.from + k]>> \o Tail(ch)

\* Consecutive blocks of the same value joined.
RECURSIVE Join(_)
Join(ch) ==
  IF Len(ch) < 2 THEN ch
  ELSE LET a == ch[1]
           b == ch[2]
       IN IF a.v = b.v /\ a.n = b.n /\ a.to = b.from
          THEN Join(<<[a EXCEPT !.to = b.to]>> \o SubSeq(ch, 3, Len(ch)))
          ELSE <<a>> \o Join(Tail(ch))

\* The value some bytes are: the value written, when they are exactly the bytes
\* of one written value; otherwise bytes that equal no value any party computes.
ValueOf(bytes) ==
  LET j == Join(bytes)
      h == j[1]
  IN IF Len(j) = 1 /\ h.from = 0 /\ h.to = h.n THEN h.v
     ELSE <<TGarbage, Len(j), h.from, h.to, h.n>> \o h.v

Peek(ch, k) == ValueOf(Take(ch, k))

----------------------------------------------------------------------------
(* performHandshake *)

\* compareNonces: TRUE when the local nonce is the greater one, bytes compared
\* from index 0 to 31 (here 1 to 32).
RECURSIVE CompareFrom(_, _, _)
CompareFrom(localNonce, peerNonce, i) ==
  IF i > NonceLen THEN FALSE
  ELSE IF localNonce[i] > peerNonce[i] THEN TRUE
  ELSE IF localNonce[i] < peerNonce[i] THEN FALSE
  ELSE CompareFrom(localNonce, peerNonce, i + 1)

\* A comparison that starts at the last byte.
RECURSIVE CompareDownFrom(_, _, _)
CompareDownFrom(localNonce, peerNonce, i) ==
  IF i < 1 THEN FALSE
  ELSE IF localNonce[i] > peerNonce[i] THEN TRUE
  ELSE IF localNonce[i] < peerNonce[i] THEN FALSE
  ELSE CompareDownFrom(localNonce, peerNonce, i - 1)

CompareNoncesFromEnd(localNonce, peerNonce) ==
  CompareDownFrom(localNonce, peerNonce, NonceLen)

CompareNonces(localNonce, peerNonce) == CompareFrom(localNonce, peerNonce, 1)

\* A transcript with the responder's key first.
ConstructTranscriptReversed(initiatorKey, responderKey) == responderKey \o initiatorKey

\* constructTranscript
ConstructTranscript(initiatorKey, responderKey) == initiatorKey \o responderKey

\* Step 5: the initiator encrypts with "enc" and decrypts with "dec".
InitiatorKeys(ss, th) ==
  [encKey |-> HkdfExpand(ss, th, InfoEnc), decKey |-> HkdfExpand(ss, th, InfoDec)]

\* A responder that labels its keys as the initiator does.
ResponderKeysNotReversed(ss, th) ==
  [encKey |-> HkdfExpand(ss, th, InfoEnc), decKey |-> HkdfExpand(ss, th, InfoDec)]

\* Step 5: the responder uses the opposite keys.
ResponderKeys(ss, th) ==
  [encKey |-> HkdfExpand(ss, th, InfoDec), decKey |-> HkdfExpand(ss, th, InfoEnc)]

\* The locals of a performHandshake that has not started.  log is the history
\* of the calls of stream.read and stream.write it has made.
Fresh ==
  [pc |-> "start", err |-> "", psk |-> NoPsk, maxPacketSize |-> DEFAULT_MAX_PACKET_SIZE,
   nonce |-> <<>>, peerNonce |-> <<>>, role |-> "none", secret |-> 0,
   peerPub |-> <<>>, transcript |-> <<>>, mac |-> <<>>, peerMac |-> <<>>,
   encKey |-> <<>>, decKey |-> <<>>, log |-> <<>>, frames |-> 0]

Failed(s, e) == [s EXCEPT !.pc = "failed", !.err = e]

\* `if (psk && psk.length < 16)`: a Uint8Array is truthy whatever its length.
PskTooShort(psk) == psk.kind = "bytes" /\ Len(psk.data) < MinPskLen

\* EncryptedStream.new up to the first read of performHandshake: the options are
\* normalised, the PSK is validated, the nonce is drawn and written.
StartHandshake(s, o, n) ==
  LET psk == NormalizePsk(o.psk)
      s1 == [s EXCEPT !.psk = psk, !.maxPacketSize = o.maxPacketSize]
  IN IF PskTooShort(psk)
     THEN [st |-> Failed(s1, "InvalidKeyMaterial"), out |-> <<>>]
     ELSE [st |-> [s1 EXCEPT !.nonce = n, !.pc = "rdNonce"],
           out |-> <<Block(n, NonceLen)>>]

\* An initiator that goes on to read the peer's public key without having
\* written its own.
OnPeerNonceReadFirst(s, pn, sk) ==
  [st |-> [s EXCEPT !.peerNonce = pn, !.secret = sk, !.pc = "rdPub",
                    !.role = IF CompareNonces(s.nonce, pn) THEN "initiator"
                             ELSE "responder"],
   out |-> <<>>]

\* From the peer's nonce to the read of the peer's public key: the role is
\* decided, the key pair is drawn, and the initiator writes its public key.
OnPeerNonce(s, pn, sk) ==
  LET init == CompareNonces(s.nonce, pn)
      s1 == [s EXCEPT !.peerNonce = pn, !.secret = sk, !.pc = "rdPub",
                      !.role = IF init THEN "initiator" ELSE "responder"]
  IN [st |-> s1, out |-> IF init THEN <<Block(Pub(sk), KeyLen)>> ELSE <<>>]

\* A MAC exchanged whether or not a PSK is configured.
HasMacAlways(psk) == TRUE

\* Step 4 of either branch: is a MAC exchanged (`if (psk)`, `if (mac)`).
HasMac(psk) == psk.kind = "bytes"

\* From the peer's public key to the read of the peer's MAC (with a PSK) or to
\* the return (without): the responder writes its public key, both compute the
\* shared secret, the transcript and the MAC, and the initiator writes its MAC.
OnPeerPub(s, pp) ==
  LET init == s.role = "initiator"
      own == Pub(s.secret)
      out1 == IF init THEN <<>> ELSE <<Block(own, KeyLen)>>
      ss == ComputeSharedSecret(s.secret, pp)
      tr == IF init THEN ConstructTranscript(own, pp) ELSE ConstructTranscript(pp, own)
      th == Sha256Hash(tr)
      mac == IF HasMac(s.psk) THEN HmacSha256(s.psk.data, tr) ELSE <<>>
      keys == IF init THEN InitiatorKeys(ss, th) ELSE ResponderKeys(ss, th)
      s1 == [s EXCEPT !.peerPub = pp]
      s2 == [s1 EXCEPT !.transcript = tr, !.mac = mac]
  IN IF ss = <<>> THEN [st |-> Failed(s1, "KeyExchange"), out |-> out1]
     ELSE IF HasMac(s.psk)
     THEN [st |-> [s2 EXCEPT !.pc = "rdMac"],
           out |-> IF init THEN <<Block(mac, KeyLen)>> ELSE out1]
     ELSE [st |-> [s2 EXCEPT !.pc = "established",
                             !.encKey = keys.encKey, !.decKey = keys.decKey],
           out |-> out1]

\* From the peer's MAC to the return: the responder writes its MAC, the MACs are
\* compared, the keys are derived.
OnPeerMac(s, pm) ==
  LET init == s.role = "initiator"
      out1 == IF init THEN <<>> ELSE <<Block(s.mac, KeyLen)>>
      ss == ComputeSharedSecret(s.secret, s.peerPub)
      th == Sha256Hash(s.transcript)
      keys == IF init THEN InitiatorKeys(ss, th) ELSE ResponderKeys(ss, th)
      s1 == [s EXCEPT !.peerMac = pm]
  IN IF ~ConstantTimeEquals(s.mac, pm)
     THEN [st |-> Failed(s1, "Authentication"), out |-> out1]
     ELSE [st |-> [s1 EXCEPT !.pc = "established",
                             !.encKey = keys.encKey, !.decKey = keys.decKey],
           out |-> out1]

----------------------------------------------------------------------------
(* EncryptedWriter.writePacket *)

\* writeU32LE: the four bytes of value, least significant first (`& 0xff` of the
\* value shifted right by 0, 8, 16 and 24).
U32LE(value) ==
  <<value % 256, (value \div 256) % 256, (value \div 65536) % 256,
    (value \div 16777216) % 256>>

\* A writePacket that announces the length of the plaintext.
WritePacketPlaintextLength(s, pt, nonce) ==
  LET ct == Encrypt(s.encKey, nonce, pt)
  IN IF PtLen(pt) > s.maxPacketSize
     THEN [err |-> "MessageTooLarge", out |-> <<>>]
     ELSE [err |-> "",
           out |-> <<Block(U32LE(PtLen(pt)), LenPrefixLen), Block(nonce, FrameNonceLen),
                     Block(ct, PtLen(pt) + TagLen)>>]

\* writePacket of the plaintext pt with the frame nonce drawn: what is written,
\* or the error thrown before anything is.
WritePacket(s, pt, nonce) ==
  LET ct == Encrypt(s.encKey, nonce, pt)
      n == PtLen(pt) + TagLen
  IN IF PtLen(pt) > s.maxPacketSize
     THEN [err |-> "MessageTooLarge", out |-> <<>>]
     ELSE [err |-> "",
           out |-> <<Block(U32LE(n), LenPrefixLen), Block(nonce, FrameNonceLen), Block(ct, n)>>]

----------------------------------------------------------------------------
(* createStreamAdapter *)

\* A write that drops what the adapter has buffered for its reads.
AdapterWriteResetsRead(a, data) ==
  [ad |-> [a EXCEPT !.readBuffer = <<>>], out |-> <<data>>]

\* adapter.write: the data is handed to stream.write; the state of the
\* adapter is not touched.
AdapterWrite(a, data) == [ad |-> a, out |-> <<data>>]

\* null, for readLength.
Null == -1

\* readBuffer holds the chunks of the 'data' events, each chunk its bytes.
NewAdapter ==
  [readBuffer |-> <<>>, readLength |-> Null, readResolver |-> FALSE, readRejecter |-> FALSE]

\* readBuffer.reduce((sum, buf) => sum + buf.length, 0)
RECURSIVE TotalBuffered(_)
TotalBuffered(buf) == IF buf = <<>> THEN 0 ELSE Avail(Head(buf)) + TotalBuffered(Tail(buf))

\* An extraction that shifts every chunk it takes from.
RECURSIVE ExtractWholeChunks(_, _)
ExtractWholeChunks(buf, length) ==
  IF length = 0 \/ buf = <<>> THEN [result |-> <<>>, rest |-> buf]
  ELSE LET c == Head(buf)
           toTake == Min(Avail(c), length)
           r == ExtractWholeChunks(Tail(buf), length - toTake)
       IN [result |-> Take(c, toTake) \o r.result, rest |-> r.rest]

\* The loop that moves length bytes out of readBuffer, a chunk or the head of a
\* chunk at a time.
RECURSIVE Extract(_, _)
Extract(buf, length) ==
  IF length = 0 \/ buf = <<>> THEN [result |-> <<>>, rest |-> buf]
  ELSE LET c == Head(buf)
           toTake == Min(Avail(c), length)
           r == Extract(IF toTake = Avail(c) THEN Tail(buf)
                        ELSE <<Drop(c, toTake)>> \o Tail(buf),
                        length - toTake)
       IN [result |-> Take(c, toTake) \o r.result, rest |-> r.rest]

\* adapter.read(length): with enough bytes buffered it returns them at once;
\* otherwise the read is left pending.
Read(a, length) ==
  IF TotalBuffered(a.readBuffer) >= length
  THEN LET e == Extract(a.readBuffer, length)
       IN [ad |-> [a EXCEPT !.readBuffer = e.rest], resolved |-> TRUE, result |-> e.result]
  ELSE [ad |-> [a EXCEPT !.readLength = length, !.readResolver = TRUE,
                         !.readRejecter = TRUE],
        resolved |-> FALSE, result |-> <<>>]

\* The 'data' handler: the chunk is pushed; a pending read that the buffer now
\* satisfies is resolved with its bytes.
OnData(a, chunk) ==
  LET buf == Append(a.readBuffer, chunk)
  IN IF a.readResolver /\ a.readLength # Null /\ TotalBuffered(buf) >= a.readLength
     THEN LET e == Extract(buf, a.readLength)
          IN [ad |-> [readBuffer |-> e.rest, readLength |-> Null,
                      readResolver |-> FALSE, readRejecter |-> FALSE],
              resolved |-> TRUE, result |-> e.result]
     ELSE [ad |-> [a EXCEPT !.readBuffer = buf], resolved |-> FALSE, result |-> <<>>]

\* readU32LE of the four bytes read.
ReadU32LE(bytes) ==
  bytes[1] + 256 * bytes[2] + 65536 * bytes[3] + 16777216 * bytes[4]

----------------------------------------------------------------------------
(* EncryptedReader.readPacket *)

\* lens is the history of the length fields its readPackets have read, results
\* the history of what they returned or threw.
NewReader ==
  [pc |-> "idle", length |-> 0, nonce |-> <<>>, lens |-> <<>>, results |-> <<>>]

Returned(pt) == [err |-> "", pt |-> pt]
Threw(e) == [err |-> e, pt |-> <<>>]

\* `length <= 0 || length > this.options.maxPacketSize`
LengthRejected(length, maxPacketSize) == length <= 0 \/ length > maxPacketSize

\* readPacket from the point where the read it awaited returned v, up to its
\* next read that has to wait or to its end; adapter.read(n) returns at once
\* when n bytes are buffered and otherwise leaves the read pending.
\* c is [ad, rd]; s is the peer (its decKey and maxPacketSize).
RECURSIVE Resume(_, _, _)
AdapterRead(s, c, n) ==
  LET r == Read(c.ad, n)
  IN IF r.resolved THEN Resume(s, [c EXCEPT !.ad = r.ad], ValueOf(r.result))
     ELSE [c EXCEPT !.ad = r.ad]

Resume(s, c, v) ==
  IF c.rd.pc = "len"
  THEN LET length == ReadU32LE(v)
       IN IF LengthRejected(length, s.maxPacketSize)
          THEN [c EXCEPT !.rd.pc = "idle", !.rd.lens = Append(@, length),
                         !.rd.results = Append(@, Threw("MessageTooLarge"))]
          ELSE AdapterRead(s, [c EXCEPT !.rd.pc = "nonce", !.rd.length = length,
                                        !.rd.lens = Append(@, length)],
                           FrameNonceLen)
  ELSE IF c.rd.pc = "nonce"
  THEN AdapterRead(s, [c EXCEPT !.rd.pc = "ct", !.rd.nonce = v], c.rd.length)
  ELSE LET d == Decrypt(s.decKey, c.rd.nonce, v)
       IN [c EXCEPT !.rd.pc = "idle",
                    !.rd.results = Append(@, IF d.ok THEN Returned(d.pt)
                                             ELSE Threw("Decryption"))]

\* A call of readPacket: it starts with readU32LE.
ReadPacket(s, c) == AdapterRead(s, [c EXCEPT !.rd.pc = "len"], LenPrefixLen)

----------------------------------------------------------------------------
(* Two honest peers run EncryptedStream.new against each other.             *)

\* The psk options the peers are configured with.
Key1 == Fill(65, MinPskLen)
Key2 == Fill(66, MinPskLen)
PskInputs ==
  {NoPsk}
    \cup {PskBytes(Fill(65, n)) : n \in 0..MinPskLen}
    \cup {PskBytes(Key2)}
    \cup {PskString(Fill(65, n)) : n \in {0, 4, 20, 24}}
    \cup {PskString(Fill(33, n)) : n \in {MinPskLen - 1, MinPskLen}}

Options == [psk : PskInputs, maxPacketSize : {DEFAULT_MAX_PACKET_SIZE}]

Idle == [seen |-> {}, sent |-> 0]

\* No writePacket in progress.
NotWriting == [pc |-> "idle", left |-> <<>>]

\* A channel that delivers what is written: tampered lists the frames and the
\* fields of them (1: length, 2: nonce, 3: ciphertext) changed in flight; once
\* it is closed, calls is the number of readPacket calls made before and
\* pending whether a read of the adapter was pending then.
Intact == [tampered |-> <<>>, closed |-> FALSE, calls |-> 0, pending |-> FALSE]

\* No call of the bincode functions is under way.
NoCodec == [pc |-> "none"]

\* No ClavisClient has been constructed.
NoClient == [status |-> "none"]

Init ==
  /\ opt \in [Peers -> Options]
  /\ peer = [p \in Peers |-> Fresh]
  /\ wire = [p \in Peers |-> <<>>]
  /\ atk = Idle
  /\ ad = [p \in Peers |-> NewAdapter]
  /\ rd = [p \in Peers |-> NewReader]
  /\ sent = [p \in Peers |-> <<>>]
  /\ chunks = 0
  /\ chan = Intact
  /\ wr = [p \in Peers |-> NotWriting]
  /\ client = NoClient
  /\ codec = NoCodec

Rd(v, n) == [op |-> "read", n |-> n, v |-> v]
Wr(b) == [op |-> "write", n |-> b.n, v |-> b.v]

\* A step of p's performHandshake: the read of k bytes it was suspended in
\* returns v (k = 0: it starts), the code up to its next read runs, and what it
\* writes follows on its wire.
Ran(p, r, v, k) ==
  /\ peer' = [peer EXCEPT ![p] =
       [r.st EXCEPT !.log = (IF k = 0 THEN @ ELSE Append(@, Rd(v, k)))
                             \o [i \in 1..Len(r.out) |-> Wr(r.out[i])]]]
  /\ wire' = [wire EXCEPT ![p] = @ \o r.out, ![Other(p)] = Drop(@, k)]

HsStart(p) ==
  /\ peer[p].pc = "start"
  /\ \E n \in NonceSet : Ran(p, StartHandshake(peer[p], opt[p], n), <<>>, 0)
  /\ UNCHANGED <<client, codec, opt, atk, ad, rd, sent, chunks, chan, wr>>

HsReadNonce(p) ==
  /\ peer[p].pc = "rdNonce"
  /\ Avail(wire[Other(p)]) >= NonceLen
  /\ LET v == Peek(wire[Other(p)], NonceLen)
     IN Ran(p, OnPeerNonce(peer[p], v, SecretOf(p)), v, NonceLen)
  /\ UNCHANGED <<client, codec, opt, atk, ad, rd, sent, chunks, chan, wr>>

HsReadPub(p) ==
  /\ peer[p].pc = "rdPub"
  /\ Avail(wire[Other(p)]) >= KeyLen
  /\ LET v == Peek(wire[Other(p)], KeyLen)
     IN Ran(p, OnPeerPub(peer[p], v), v, KeyLen)
  /\ UNCHANGED <<client, codec, opt, atk, ad, rd, sent, chunks, chan, wr>>

HsReadMac(p) ==
  /\ peer[p].pc = "rdMac"
  /\ Avail(wire[Other(p)]) >= KeyLen
  /\ LET v == Peek(wire[Other(p)], KeyLen)
     IN Ran(p, OnPeerMac(peer[p], v), v, KeyLen)
  /\ UNCHANGED <<client, codec, opt, atk, ad, rd, sent, chunks, chan, wr>>

\* The application of an established peer writes a packet.
Payloads == {Plaintext(4, 1), Plaintext(4, 2)}

HsWritePacket(p) ==
  /\ peer[p].pc = "established"
  /\ peer[p].frames < MaxFrames
  /\ \E pt \in Payloads :
       LET r == WritePacket(peer[p], pt, FrameNonce(peer[p].frames + 1))
       IN /\ r.err = ""
          /\ peer' = [peer EXCEPT ![p].frames = @ + 1]
          /\ wire' = [wire EXCEPT ![p] = @ \o r.out]
  /\ UNCHANGED <<client, codec, opt, atk, ad, rd, sent, chunks, chan, wr>>

Next ==
  \E p \in Peers :
    \/ HsStart(p)
    \/ HsReadNonce(p)
    \/ HsReadPub(p)
    \/ HsReadMac(p)
    \/ HsWritePacket(p)

Spec == Init /\ [][Next]_vars

----------------------------------------------------------------------------
(* Properties of the handshake of two honest peers (Spec).                  *)

Established(p) == peer[p].pc = "established"
Terminated(p) == peer[p].pc \in {"established", "failed"}
Reading(p) == peer[p].pc \in {"rdNonce", "rdPub", "rdMac"}
\* p is suspended in a read that the bytes in flight do not satisfy.
Blocked(p) == Reading(p) /\ Avail(wire[Other(p)]) < KeyLen
\* A step of p's performHandshake can be taken.
CanStep(p) == peer[p].pc = "start" \/ (Reading(p) /\ ~Blocked(p))

\* The PSK p's performHandshake is called with.
PskOf(p) == NormalizePsk(opt[p].psk)
ValidPsk(p) == PskOf(p).kind = "bytes" /\ Len(PskOf(p).data) >= MinPskLen
OppositeRoles ==
  /\ peer["A"].role # "none"
  /\ peer["B"].role # "none"
  /\ peer["A"].role # peer["B"].role

\* a is lexicographically greater than b.
LexGreater(a, b) ==
  \E i \in 1..NonceLen :
    /\ a[i] > b[i]
    /\ \A j \in 1..(i - 1) : a[j] = b[j]

\* The handshake key of the two peers, from the secrets and the roles.
SessionKey(info) ==
  LET i == IF peer["A"].role = "initiator" THEN "A" ELSE "B"
      ss == <<TDh, Min(peer["A"].secret, peer["B"].secret),
                   Max(peer["A"].secret, peer["B"].secret)>>
      th == <<TSha>> \o Pub(peer[i].secret) \o Pub(peer[Other(i)].secret)
  IN HkdfExpand(ss, th, info)

\* C1: when both peers have returned from performHandshake, each one's encKey
\* is the other's decKey; the initiator's encKey is the key derived with "enc"
\* and its decKey the one derived with "dec", the responder's the reverse.
C1_KeysAgree ==
  (Established("A") /\ Established("B")) =>
    /\ OppositeRoles
    /\ \A p \in Peers :
         /\ peer[p].encKey = peer[Other(p)].decKey
         /\ peer[p].decKey = peer[Other(p)].encKey
         /\ peer[p].encKey # peer[p].decKey
         /\ peer[p].role = "initiator" =>
              /\ peer[p].encKey = SessionKey(InfoEnc)
              /\ peer[p].decKey = SessionKey(InfoDec)
         /\ peer[p].role = "responder" =>
              /\ peer[p].encKey = SessionKey(InfoDec)
              /\ peer[p].decKey = SessionKey(InfoEnc)

\* Both peers have returned from a handshake with a PSK.
C1_Witness ==
  /\ Established("A") /\ Established("B")
  /\ ValidPsk("A") /\ ValidPsk("B")
  /\ peer["A"].role = "responder"

\* The outcome of a handshake of two peers with PSKs of at least 16 bytes, in
\* the states where no step is left and distinct(a, b) holds of the nonces.
PskOutcome(distinct(_, _)) ==
  LET matching == PskOf("A").data = PskOf("B").data
      quiet == /\ \A p \in Peers : ~CanStep(p)
               /\ distinct(peer["A"].nonce, peer["B"].nonce)
  IN (ValidPsk("A") /\ ValidPsk("B")) =>
       IF matching
       THEN /\ \A p \in Peers : peer[p].pc # "failed"
            /\ quiet => \A p \in Peers : Established(p)
       ELSE /\ \A p \in Peers :
                 /\ ~Established(p)
                 /\ peer[p].frames = 0
                 /\ \A i \in 1..Len(wire[p]) : wire[p][i].n = KeyLen
                 /\ peer[p].pc = "failed" =>
                      /\ peer[p].err = "Authentication"
                      /\ peer[p].peerMac = HmacSha256(PskOf(Other(p)).data, peer[p].transcript)
                      /\ peer[p].log[Len(peer[p].log) - (IF peer[p].role = "initiator" THEN 0 ELSE 1)]
                           = Rd(peer[p].peerMac, KeyLen)
            /\ quiet => \A p \in Peers : peer[p].pc = "failed"

AnyNonces(a, b) == TRUE
DistinctNonces(a, b) == a # b

\* C3: with matching PSKs no peer's handshake fails, and when no step is left
\* both have returned keys; with different PSKs of at least 16 bytes no peer
\* returns keys, a peer fails only with Authentication and only after it has
\* read the peer's MAC, no frame is written, and when no step is left both
\* have failed.
C3_PskOutcome == PskOutcome(AnyNonces)

\* The same outcome, of the handshakes in which the nonces drawn differ.
PskOutcomeDistinctNonces == PskOutcome(DistinctNonces)

\* C7: a peer is Initiator exactly when its nonce is lexicographically greater
\* than the peer's nonce, and Responder otherwise (equality included); two
\* peers with distinct nonces hold opposite roles.
C7_RoleFromNonces ==
  /\ \A p \in Peers :
       peer[p].role # "none" =>
         /\ peer[p].peerNonce = peer[Other(p)].nonce
         /\ peer[p].role = IF LexGreater(peer[p].nonce, peer[p].peerNonce)
                           THEN "initiator" ELSE "responder"
  /\ (peer["A"].role # "none" /\ peer["B"].role # "none") =>
       IF peer["A"].nonce = peer["B"].nonce
       THEN peer["A"].role = "responder" /\ peer["B"].role = "responder"
       ELSE OppositeRoles

\* The roles are decided by the first byte against the order of the last one.
C7_Witness ==
  \E p \in Peers :
    /\ peer[p].role = "initiator"
    /\ peer[Other(p)].role = "responder"
    /\ peer[p].nonce[NonceLen] < peer[Other(p)].nonce[NonceLen]

\* The operations of a role after the nonce exchange, in order.
OpsOf(role) ==
  IF role = "initiator" THEN <<"write", "read", "write", "read">>
  ELSE <<"read", "write", "read", "write">>

\* C8: after the nonce exchange the initiator writes before it reads and the
\* responder reads before it writes, in the key exchange and in the MAC
\* exchange; two peers of opposite roles are never both suspended in a read
\* that the bytes in flight do not satisfy.
C8_OrderNoDeadlock ==
  /\ \A p \in Peers :
       peer[p].role # "none" =>
         \A i \in 3..Len(peer[p].log) :
           /\ i - 2 <= 4
           /\ peer[p].log[i].op = OpsOf(peer[p].role)[i - 2]
  /\ OppositeRoles => ~(Blocked("A") /\ Blocked("B"))

\* Both peers have been through the key exchange and the MAC exchange.
C8_Witness ==
  /\ OppositeRoles
  /\ \A p \in Peers : Established(p) /\ Len(peer[p].log) = 6

\* What a peer writes during a handshake that returns.
HandshakeWrites(p) ==
  <<Wr(Block(peer[p].nonce, NonceLen)), Wr(Block(Pub(SecretOf(p)), KeyLen))>>
    \o (IF PskOf(p).kind = "bytes"
        THEN <<Wr(Block(HmacSha256(PskOf(p).data, peer[p].transcript), KeyLen))>>
        ELSE <<>>)

IsWrite(e) == e.op = "write"
IsRead(e) == e.op = "read"

RECURSIVE SumN(_)
SumN(es) == IF es = <<>> THEN 0 ELSE Head(es).n + SumN(Tail(es))

\* C9: what a peer has written is at any time a prefix of: its nonce, its public
\* key, its MAC if a PSK is configured on it; a peer that has returned has
\* written all of them; with no PSK on either side a peer writes 64 bytes and
\* reads 64 bytes, none of them a MAC.
C9_HandshakeBytes ==
  \A p \in Peers :
    LET w == SelectSeq(peer[p].log, IsWrite)
        r == SelectSeq(peer[p].log, IsRead)
    IN /\ Len(w) <= Len(HandshakeWrites(p))
       /\ \A i \in 1..Len(w) : w[i] = HandshakeWrites(p)[i]
       /\ Established(p) => w = HandshakeWrites(p)
       /\ (\A q \in Peers : PskOf(q).kind = "undefined") =>
            /\ SumN(w) <= 2 * KeyLen
            /\ SumN(r) <= 2 * KeyLen
            /\ peer[p].mac = <<>>
            /\ Established(p) => (SumN(w) = 2 * KeyLen /\ SumN(r) = 2 * KeyLen)

\* A peer with a PSK has returned: it has written 96 bytes.
C9_Witness ==
  \E p \in Peers :
    /\ Established(p)
    /\ PskOf(p).kind = "bytes"
    /\ SumN(SelectSeq(peer[p].log, IsWrite)) = 3 * KeyLen
    /\ Established(Other(p))

\* Exactly one of the two peers is configured with a (valid) PSK.
MixedPsk ==
  \E p \in Peers : ValidPsk(p) /\ PskOf(Other(p)).kind = "undefined"

\* A handshake read of p returned bytes of a frame: bytes that are no value
\* written whole.
ReadFrameBytes(p) ==
  \E i \in 1..Len(peer[p].log) :
    /\ peer[p].log[i].op = "read"
    /\ peer[p].log[i].v[1] = TGarbage

\* C4: when exactly one peer configures a PSK no peer returns session keys, and
\* no handshake read is served with the bytes of a frame.
C4_MixedPskRejected ==
  MixedPsk => \A p \in Peers : ~Established(p) /\ ~ReadFrameBytes(p)

\* The number of bytes of the PSK an option stands for.
PskLength(psk) ==
  IF psk.kind = "bytes" THEN Len(psk.data)
  ELSE IF B64Encode(B64Decode(psk.data)) = psk.data THEN Len(B64Decode(psk.data))
  ELSE Len(Utf8Encode(psk.data))

\* C5: a peer given a PSK of fewer than 16 bytes, as bytes or as a string,
\* fails with InvalidKeyMaterial and has written nothing.
C5_ShortPskRejected ==
  \A p \in Peers :
    (/\ opt[p].psk.kind # "undefined"
     /\ PskLength(opt[p].psk) < MinPskLen
     /\ peer[p].pc # "start") =>
      /\ peer[p].pc = "failed"
      /\ peer[p].err = "InvalidKeyMaterial"
      /\ peer[p].log = <<>>

\* C6: between two peers whose PSK configurations agree, as long as a
\* performHandshake has not returned or failed, one of them can take a step:
\* none stays suspended for ever.
C6_NeverStuck ==
  (/\ PskOf("A") = PskOf("B")
   /\ \A p \in Peers : ~PskTooShort(PskOf(p))) =>
    \/ \A p \in Peers : Terminated(p)
    \/ \E p \in Peers : CanStep(p)

----------------------------------------------------------------------------
(* Peer A, configured with the PSK Key1, runs EncryptedStream.new against   *)
(* an active counterpart that does not know Key1 (SpecAtk).  The            *)
(* counterpart reads what A writes and writes 32-byte values of its choice: *)
(* a nonce, then its own public key, a point of small order, any value it   *)
(* has read, or a MAC under a key it knows.                                 *)

AtkSecret == 2
AtkKeys == {Key2}

AtkPubs(seen) ==
  {Pub(AtkSecret)} \cup {v \in seen : Len(v) = 2 /\ v[1] = TPub}

AtkValues(seen) ==
  {Pub(AtkSecret), LowOrderPoint}
    \cup {v \in seen : Len(v) # NonceLen}
    \cup {HmacSha256(k, ConstructTranscript(a, b)) :
            k \in AtkKeys, a \in AtkPubs(seen), b \in AtkPubs(seen)}

InitAtk ==
  /\ opt = [p \in Peers |->
              [psk |-> IF p = "A" THEN PskBytes(Key1) ELSE NoPsk,
               maxPacketSize |-> DEFAULT_MAX_PACKET_SIZE]]
  /\ peer = [p \in Peers |-> Fresh]
  /\ wire = [p \in Peers |-> <<>>]
  /\ atk = Idle
  /\ ad = [p \in Peers |-> NewAdapter]
  /\ rd = [p \in Peers |-> NewReader]
  /\ sent = [p \in Peers |-> <<>>]
  /\ chunks = 0
  /\ chan = Intact
  /\ wr = [p \in Peers |-> NotWriting]
  /\ client = NoClient
  /\ codec = NoCodec

\* The counterpart reads the next 32 bytes A wrote.
AtkRead ==
  /\ wire["A"] # <<>>
  /\ atk' = [atk EXCEPT !.seen = @ \cup {Head(wire["A"]).v}]
  /\ wire' = [wire EXCEPT !["A"] = Tail(@)]
  /\ UNCHANGED <<client, codec, opt, peer, ad, rd, sent, chunks, chan, wr>>

\* The counterpart writes 32 bytes: first a nonce, then values it can compute.
AtkWrite ==
  /\ atk.sent < MaxInject
  /\ \E v \in (IF atk.sent = 0 THEN NonceSet ELSE AtkValues(atk.seen)) :
       wire' = [wire EXCEPT !["B"] = Append(@, Block(v, KeyLen))]
  /\ atk' = [atk EXCEPT !.sent = @ + 1]
  /\ UNCHANGED <<client, codec, opt, peer, ad, rd, sent, chunks, chan, wr>>

NextAtk ==
  \/ HsStart("A")
  \/ HsReadNonce("A")
  \/ HsReadPub("A")
  \/ HsReadMac("A")
  \/ AtkRead
  \/ AtkWrite

SpecAtk == InitAtk /\ [][NextAtk]_vars

\* C2: a peer configured with a PSK does not return session keys to a
\* counterpart that does not know the PSK.
C2_OnlyPskHolderEstablishes == ~Established("A")

----------------------------------------------------------------------------
(* After a handshake without PSK, A writes packets and B reads them; the    *)
(* channel hands B's adapter the bytes in 'data' chunks of any size         *)
(* (SpecPkt).                                                               *)

\* Packets A's application writes.
MaxPackets == 2
\* 'data' events the channel splits the byte stream into.
MaxChunks == 4

\* The lengths of the packets written: around the limits of the writer and of
\* the reader.
PacketLengths ==
  {0, 4, DEFAULT_MAX_PACKET_SIZE - TagLen, DEFAULT_MAX_PACKET_SIZE - TagLen + 1,
   DEFAULT_MAX_PACKET_SIZE, DEFAULT_MAX_PACKET_SIZE + 1}

NonceByte(a) == [i \in 1..NonceLen |-> IF i = 1 THEN a ELSE 0]

\* The locals of p when its handshake without PSK against q has returned.
AfterHandshake(p, np, nq) ==
  LET o == [psk |-> NoPsk, maxPacketSize |-> DEFAULT_MAX_PACKET_SIZE]
      s0 == StartHandshake(Fresh, o, np).st
      s1 == OnPeerNonce(s0, nq, SecretOf(p)).st
  IN OnPeerPub(s1, Pub(SecretOf(Other(p)))).st

InitPkt ==
  /\ opt = [p \in Peers |-> [psk |-> NoPsk, maxPacketSize |-> DEFAULT_MAX_PACKET_SIZE]]
  /\ \E a \in 0..1 :
       peer = [p \in Peers |->
                 IF p = "A" THEN AfterHandshake(p, NonceByte(a), NonceByte(1 - a))
                 ELSE AfterHandshake(p, NonceByte(1 - a), NonceByte(a))]
  /\ wire = [p \in Peers |-> <<>>]
  /\ atk = Idle
  /\ ad = [p \in Peers |-> NewAdapter]
  /\ rd = [p \in Peers |-> NewReader]
  /\ sent = [p \in Peers |-> <<>>]
  /\ chunks = 0
  /\ chan = Intact
  /\ wr = [p \in Peers |-> NotWriting]
  /\ client = NoClient
  /\ codec = NoCodec

\* p's application calls writePacket with a packet of one of the lengths; the
\* content of its i-th packet is i.
PktWriteOf(p, lengths) ==
  /\ Len(sent[p]) < MaxPackets
  /\ \E n \in lengths :
       LET pt == Plaintext(n, Len(sent[p]) + 1)
           r == WritePacket(peer[p], pt, FrameNonce(peer[p].frames + 1))
       IN /\ sent' = [sent EXCEPT ![p] =
                        Append(@, [err |-> r.err, pt |-> pt, out |-> r.out])]
          /\ wire' = [wire EXCEPT ![p] = @ \o r.out]
          /\ peer' = [peer EXCEPT ![p].frames = @ + (IF r.err = "" THEN 1 ELSE 0)]
  /\ UNCHANGED <<client, codec, opt, atk, ad, rd, chunks, chan, wr>>

PktWrite(p) == PktWriteOf(p, PacketLengths)

\* The sizes of the next 'data' chunk, of the bytes in flight.
ChunkSizes(avail) ==
  {k \in {1, LenPrefixLen + 1, avail} :
     k >= 1 /\ k <= avail}

\* The bytes in flight arrive in one chunk.
AllInFlight(avail) == {k \in {avail} : k >= 1}

\* A 'data' event at p: the next k bytes the other end wrote arrive (all of
\* them when whole); a pending read they complete is resolved and readPacket
\* goes on.
PktDataOf(p, whole) ==
  /\ chunks < MaxChunks
  /\ ~chan.closed
  /\ \E k \in (IF whole THEN AllInFlight(Avail(wire[Other(p)]))
               ELSE ChunkSizes(Avail(wire[Other(p)]))) :
       LET d == OnData(ad[p], Take(wire[Other(p)], k))
           c == IF d.resolved
                THEN Resume(peer[p], [ad |-> d.ad, rd |-> rd[p]], ValueOf(d.result))
                ELSE [ad |-> d.ad, rd |-> rd[p]]
       IN /\ ad' = [ad EXCEPT ![p] = c.ad]
          /\ rd' = [rd EXCEPT ![p] = c.rd]
          /\ wire' = [wire EXCEPT ![Other(p)] = Drop(@, k)]
  /\ chunks' = chunks + 1
  /\ UNCHANGED <<client, codec, opt, peer, atk, sent, chan, wr>>

PktData(p) == PktDataOf(p, FALSE)

\* p's application calls readPacket, no call being in progress and none having
\* failed.
PktRead(p) ==
  /\ rd[p].pc = "idle"
  /\ Len(rd[p].results) < MaxPackets
  /\ \A i \in 1..Len(rd[p].results) : rd[p].results[i].err = ""
  /\ LET c == ReadPacket(peer[p], [ad |-> ad[p], rd |-> rd[p]])
     IN /\ ad' = [ad EXCEPT ![p] = c.ad]
        /\ rd' = [rd EXCEPT ![p] = c.rd]
  /\ UNCHANGED <<client, codec, opt, peer, wire, atk, sent, chunks, chan, wr>>

NextPkt ==
  \/ PktWrite("A")
  \/ PktData("B")
  \/ PktRead("B")

SpecPkt == InitPkt /\ [][NextPkt]_vars

IsOk(e) == e.err = ""

\* C10: the readPackets of B return, in order, the plaintexts of the
\* writePackets of A that succeeded.
C10_Fifo ==
  LET w == SelectSeq(sent["A"], IsOk)
      r == rd["B"].results
  IN /\ Len(r) <= Len(w)
     /\ \A i \in 1..Len(r) : r[i] = Returned(w[i].pt)

\* writePacket fails, with MessageTooLarge, exactly for the plaintexts longer
\* than maxPacketSize, and a writePacket that fails writes nothing.
WriterLimit ==
  \A i \in 1..Len(sent["A"]) :
    LET e == sent["A"][i]
    IN /\ e.err = IF PtLen(e.pt) <= peer["A"].maxPacketSize THEN "" ELSE "MessageTooLarge"
       /\ e.err # "" => e.out = <<>>

\* The number of the first i writePackets of p that succeeded.
OkUpTo(p, i) == Len(SelectSeq(SubSeq(sent[p], 1, i), IsOk))

\* C11: a plaintext of maxPacketSize bytes is written, a longer one is rejected
\* with MessageTooLarge and nothing is written for it, and the packet of a
\* writePacket that succeeds after a rejected one is what the readPacket of
\* the peer that reaches it returns.
C11_WriteLimitKeepsUsable ==
  /\ WriterLimit
  /\ \A i \in 2..Len(sent["A"]) :
       (sent["A"][i - 1].err # "" /\ sent["A"][i].err = "") =>
         (OkUpTo("A", i) <= Len(rd["B"].results) =>
            rd["B"].results[OkUpTo("A", i)] = Returned(sent["A"][i].pt))

\* The length field the claim has rejected: 0, or more than the greatest
\* plaintext with its tag.
SpecLengthRejected(length, maxPlaintextSize) ==
  length = 0 \/ length > maxPlaintextSize + TagLen

\* C12: a readPacket throws MessageTooLarge exactly when the length field it
\* has read is 0 or greater than maxPacketSize + 16; for any other length it
\* goes on to the nonce and the ciphertext.
C12_ReaderLimit ==
  \A i \in 1..Len(rd["B"].lens) :
    LET rejected == /\ i <= Len(rd["B"].results)
                    /\ rd["B"].results[i].err = "MessageTooLarge"
    IN rejected <=> SpecLengthRejected(rd["B"].lens[i], peer["B"].maxPacketSize)

\* The bytes of the frames of the writePackets es, in order.
RECURSIVE Frames(_)
Frames(es) == IF es = <<>> THEN <<>> ELSE Head(es).out \o Frames(Tail(es))

\* C19: a writePacket of P that succeeds writes the four bytes of |P| + 16,
\* least significant first, then the 24 bytes of the nonce, then the |P| + 16
\* bytes of the ciphertext of P: 4 + 24 + |P| + 16 bytes, the length field
\* being the number of bytes that follow the nonce; the frames are on the
\* channel in the order of the calls.
C19_FrameLayout ==
  /\ \A i \in 1..Len(sent["A"]) :
       LET e == sent["A"][i]
           n == PtLen(e.pt) + TagLen
       IN e.err = "" =>
            /\ Len(e.out) = 3
            /\ e.out[1].n = 4 /\ e.out[2].n = 24 /\ e.out[3].n = n
            /\ Avail(e.out) = 4 + 24 + PtLen(e.pt) + 16
            /\ Len(e.out[1].v) = 4
            /\ \A j \in 1..4 : e.out[1].v[j] \in 0..255
            /\ e.out[1].v[1] + 256 * e.out[1].v[2] + 65536 * e.out[1].v[3]
                 + 16777216 * e.out[1].v[4] = n
            /\ e.out[2].v = FrameNonce(OkUpTo("A", i))
            /\ e.out[3].v = Encrypt(peer["A"].encKey, e.out[2].v, e.pt)
            /\ PtLen(e.pt) = 4 => (e.out[1].v = <<20, 0, 0, 0>> /\ Avail(e.out) = 48)
  /\ chunks = 0 => wire["A"] = Frames(sent["A"])

\* Two packets have been written, the second of four bytes.
C19_Witness ==
  /\ Len(sent["A"]) = 2
  /\ sent["A"][1].err = "" /\ PtLen(sent["A"][1].pt) = DEFAULT_MAX_PACKET_SIZE
  /\ sent["A"][2].err = "" /\ PtLen(sent["A"][2].pt) = 4

----------------------------------------------------------------------------
(* The same, on a channel on which a single byte of a frame is changed in   *)
(* flight, with an application that calls readPacket again after a failed   *)
(* decryption (SpecWire).                                                   *)

\* The lengths of the packets written: a short one, the longest the reader
\* accepts, the longest the writer accepts.
WireLengths == {4, DEFAULT_MAX_PACKET_SIZE - TagLen, DEFAULT_MAX_PACKET_SIZE}

\* The values a byte b is changed to.
ChangedBytes(b) == {x \in {0, b - 1, b + 1} : x \in 0..255 /\ x # b}

\* The values the bytes of the field k of a frame become when one byte of them
\* is changed: a length prefix is its four bytes; a nonce and a ciphertext
\* become bytes that are no nonce drawn and no ciphertext computed.
ChangedValues(k, v) ==
  IF k = 1
  THEN UNION {{[v EXCEPT ![i] = x] : x \in ChangedBytes(v[i])} : i \in 1..LenPrefixLen}
  ELSE {<<TTampered>> \o v}

\* One byte of a field of a frame of A, the field being whole in flight, is
\* changed.
Tamper ==
  /\ chan.tampered = <<>>
  /\ \E j \in 1..Len(wire["A"]) :
       LET b == wire["A"][j]
           g == 3 * Len(SelectSeq(sent["A"], IsOk)) - Len(wire["A"]) + j
           f == ((g - 1) \div 3) + 1
           k == ((g - 1) % 3) + 1
       IN /\ b.from = 0 /\ b.to = b.n
          /\ \E v \in ChangedValues(k, b.v) :
               /\ wire' = [wire EXCEPT !["A"][j].v = v]
               /\ chan' = [chan EXCEPT !.tampered = Append(@, [frame |-> f, field |-> k])]
  /\ UNCHANGED <<client, codec, opt, peer, atk, ad, rd, sent, chunks, wr>>

\* The length field of the i-th frame of p as p wrote it.
LengthWritten(p, i) == PtLen(SelectSeq(sent[p], IsOk)[i].pt) + TagLen

\* p's application calls readPacket again after a readPacket has failed: the
\* failures were decryptions of frames whose length field arrived as written.
PktReadAgain(p) ==
  /\ rd[p].pc = "idle"
  /\ Len(rd[p].results) < MaxPackets
  /\ \E i \in 1..Len(rd[p].results) : rd[p].results[i].err # ""
  /\ \A i \in 1..Len(rd[p].results) :
       /\ rd[p].results[i].err \in {"", "Decryption"}
       /\ rd[p].lens[i] = LengthWritten(Other(p), i)
  /\ LET c == ReadPacket(peer[p], [ad |-> ad[p], rd |-> rd[p]])
     IN /\ ad' = [ad EXCEPT ![p] = c.ad]
        /\ rd' = [rd EXCEPT ![p] = c.rd]
  /\ UNCHANGED <<client, codec, opt, peer, wire, atk, sent, chunks, chan, wr>>

NextWire ==
  \/ PktWriteOf("A", WireLengths)
  \/ PktDataOf("B", TRUE)
  \/ PktRead("B")
  \/ PktReadAgain("B")
  \/ Tamper

SpecWire == InitPkt /\ [][NextWire]_vars

\* B's readPacket of the frame f is suspended and every byte written has
\* arrived.
BlockedAt(f) ==
  /\ Len(rd["B"].results) = f - 1
  /\ rd["B"].pc # "idle"
  /\ wire["A"] = <<>>

\* C13, as stated: the readPacket of a frame of which a byte was changed fails
\* with Decryption and does not block.
C13_TamperGivesDecryption ==
  \A n \in 1..Len(chan.tampered) :
    LET f == chan.tampered[n].frame
    IN /\ f <= Len(rd["B"].results) => rd["B"].results[f] = Threw("Decryption")
       /\ ~BlockedAt(f)

\* C13, amended: the readPacket of a frame of which a byte was changed never
\* returns a plaintext.  With the nonce or the ciphertext changed it fails, and
\* does not block: with Decryption, or with MessageTooLarge when the reader
\* rejects the length field of the frame.  With the length prefix changed it
\* fails with MessageTooLarge when the new length is rejected and otherwise
\* with Decryption once that many bytes have arrived, and it blocks only on a
\* length greater than the one written.
C13_TamperNeverAccepted ==
  \A n \in 1..Len(chan.tampered) :
    LET f == chan.tampered[n].frame
        k == chan.tampered[n].field
        r == rd["B"].results
        l == rd["B"].lens
    IN /\ f <= Len(r) =>
            /\ r[f].err # "" /\ r[f].pt = <<>>
            /\ r[f].err = IF LengthRejected(l[f], peer["B"].maxPacketSize)
                          THEN "MessageTooLarge" ELSE "Decryption"
       /\ (f <= Len(l) /\ k # 1) => l[f] = LengthWritten("A", f)
       /\ (f <= Len(l) /\ k = 1) => l[f] # LengthWritten("A", f)
       /\ BlockedAt(f) => (f <= Len(l) /\ k = 1 /\ l[f] > LengthWritten("A", f))

\* The ciphertext of the first frame was changed and the readPacket threw.
C13_Witness ==
  /\ chan.tampered = <<[frame |-> 1, field |-> 3]>>
  /\ rd["B"].results = <<Threw("Decryption")>>

\* C14: once a readPacket has failed, every later readPacket fails and no
\* further length field is read.
C14_ClosedIsTerminal ==
  \A i \in 1..Len(rd["B"].results) :
    rd["B"].results[i].err # "" =>
      /\ \A j \in (i + 1)..Len(rd["B"].results) : rd["B"].results[j].err # ""
      /\ Len(rd["B"].lens) <= i

----------------------------------------------------------------------------
(* After split(), one task of B calls readPacket on the reader while        *)
(* another calls writePacket on the writer; a writePacket is suspended      *)
(* after each of its three writes, and what A has written arrives in one    *)
(* chunk at any point of this (SpecSplit).                                  *)

\* The lengths of the packets written: a short one and the longest.
SplitLengths == {4, DEFAULT_MAX_PACKET_SIZE}

\* The writer task of p calls writePacket: the packet is checked and
\* encrypted, and the length prefix is written.
WrCall(p) ==
  /\ wr[p].pc = "idle"
  /\ Len(sent[p]) < MaxPackets
  /\ \E n \in SplitLengths :
       LET pt == Plaintext(n, Len(sent[p]) + 1)
           r == WritePacket(peer[p], pt, FrameNonce(peer[p].frames + 1))
           w == AdapterWrite(ad[p], r.out[1])
       IN /\ sent' = [sent EXCEPT ![p] =
                        Append(@, [err |-> r.err, pt |-> pt, out |-> r.out])]
          /\ IF r.err # ""
             THEN UNCHANGED <<wire, peer, wr, ad>>
             ELSE /\ wire' = [wire EXCEPT ![p] = @ \o w.out]
                  /\ ad' = [ad EXCEPT ![p] = w.ad]
                  /\ peer' = [peer EXCEPT ![p].frames = @ + 1]
                  /\ wr' = [wr EXCEPT ![p] = [pc |-> "writing", left |-> Tail(r.out)]]
  /\ UNCHANGED <<client, codec, opt, atk, rd, chunks, chan>>

\* The write the writePacket of p awaited has completed: it writes what is
\* next, the nonce and then the ciphertext, or returns.
WrResume(p) ==
  /\ wr[p].pc = "writing"
  /\ IF wr[p].left = <<>>
     THEN /\ wr' = [wr EXCEPT ![p] = NotWriting]
          /\ UNCHANGED <<wire, ad>>
     ELSE LET w == AdapterWrite(ad[p], Head(wr[p].left))
          IN /\ wire' = [wire EXCEPT ![p] = @ \o w.out]
             /\ ad' = [ad EXCEPT ![p] = w.ad]
             /\ wr' = [wr EXCEPT ![p].left = Tail(@)]
  /\ UNCHANGED <<client, codec, opt, peer, atk, rd, sent, chunks, chan>>

NextSplit ==
  \/ PktWriteOf("A", SplitLengths)
  \/ PktDataOf("B", TRUE)
  \/ PktRead("B")
  \/ WrCall("B")
  \/ WrResume("B")

SpecSplit == InitPkt /\ [][NextSplit]_vars

\* What the readPacket of the frame of the writePacket e gives when nothing
\* else runs.
SerialRead(e, maxPacketSize) ==
  IF LengthRejected(PtLen(e.pt) + TagLen, maxPacketSize)
  THEN Threw("MessageTooLarge") ELSE Returned(e.pt)

\* C15: however the steps of the writePackets of B's writer are interleaved
\* with the readPackets of B's reader and the arrival of chunks, what the
\* writer has put on the wire is the frames of its calls in order (up to what
\* the call in progress has still to write), and what the readPackets have
\* given is what they give of the frames of A one after the other.
C15_HalvesIndependent ==
  /\ wire["B"] \o wr["B"].left = Frames(sent["B"])
  /\ LET w == SelectSeq(sent["A"], IsOk)
         r == rd["B"].results
     IN /\ Len(r) <= Len(w)
        /\ \A i \in 1..Len(r) : r[i] = SerialRead(w[i], peer["B"].maxPacketSize)

\* A readPacket has returned a packet that arrived while a writePacket was
\* suspended between its writes, and a second packet has been written.
C15_Witness ==
  /\ wr["B"].pc = "writing"
  /\ Len(wr["B"].left) = 1
  /\ Len(sent["B"]) = 2 /\ sent["B"][1].err = ""
  /\ Len(rd["B"].results) = 1 /\ rd["B"].results[1].err = ""
  /\ ad["B"].readBuffer # <<>>

----------------------------------------------------------------------------
(* The same as SpecPkt, on a channel that is closed at some point: no       *)
(* 'data' event follows, and the adapter, which listens to 'data' and       *)
(* 'error' only, runs no code (SpecClose).                                  *)

\* The length of the packets written.
CloseLengths == {4}

\* The number of readPacket calls p has made.
ReadCalls(p) == Len(rd[p].results) + (IF rd[p].pc = "idle" THEN 0 ELSE 1)

\* The channel of B is closed (the stream emits 'end' and 'close'): what has
\* not arrived never does.
Close ==
  /\ ~chan.closed
  /\ chan' = [chan EXCEPT !.closed = TRUE, !.calls = ReadCalls("B"),
                          !.pending = ad["B"].readResolver]
  /\ UNCHANGED <<client, codec, opt, peer, wire, atk, ad, rd, sent, chunks, wr>>

NextClose ==
  \/ PktWriteOf("A", CloseLengths)
  \/ PktData("B")
  \/ PktRead("B")
  \/ Close

SpecClose == InitPkt /\ [][NextClose]_vars

\* C16: a readPacket called after the channel has been closed fails with
\* Closed: it does not return a packet and it is not left pending.
C16_ClosedInvalidates ==
  chan.closed =>
    /\ \A i \in (chan.calls + 1)..Len(rd["B"].results) :
         rd["B"].results[i] = Threw("Closed")
    /\ ~(rd["B"].pc # "idle" /\ ReadCalls("B") > chan.calls)

\* C18: a read of the adapter that is pending when the channel ends does not
\* stay pending.
C18_EofRejectsPendingRead ==
  (chan.closed /\ chan.pending) => ~ad["B"].readResolver

----------------------------------------------------------------------------
(* The adapter alone: a stream of bytes arrives in 'data' chunks of any     *)
(* sizes while a caller makes reads of any lengths, one after the other     *)
(* (SpecAdapter).                                                           *)

\* The bytes of the incoming stream.
StreamLen == 6
\* The greatest length of a read.
MaxReadLen == 3
\* The greatest size of a chunk.
MaxChunkLen == 3

TStream == 1010
\* The incoming stream as the other end wrote it.
Stream == <<Block(<<TStream>>, StreamLen)>>

InitAdapter ==
  /\ opt = [p \in Peers |-> [psk |-> NoPsk, maxPacketSize |-> DEFAULT_MAX_PACKET_SIZE]]
  /\ peer = [p \in Peers |-> Fresh]
  /\ wire = [p \in Peers |-> IF p = "A" THEN Stream ELSE <<>>]
  /\ atk = Idle
  /\ ad = [p \in Peers |-> NewAdapter]
  /\ rd = [p \in Peers |-> NewReader]
  /\ sent = [p \in Peers |-> <<>>]
  /\ chunks = 0
  /\ chan = Intact
  /\ wr = [p \in Peers |-> NotWriting]
  /\ client = NoClient
  /\ codec = NoCodec

\* A read of n bytes that returned bytes.
ReadResult(n, bytes) == [n |-> n, bytes |-> bytes]

\* The caller of p calls adapter.read, no read being pending.
AdRead(p) ==
  /\ ~ad[p].readResolver
  /\ Avail(wire[Other(p)]) + TotalBuffered(ad[p].readBuffer) > 0
  /\ \E n \in 1..MaxReadLen :
       LET r == Read(ad[p], n)
       IN /\ ad' = [ad EXCEPT ![p] = r.ad]
          /\ rd' = [rd EXCEPT ![p].results =
                      IF r.resolved THEN Append(@, ReadResult(n, r.result)) ELSE @]
  /\ UNCHANGED <<client, codec, opt, peer, wire, atk, sent, chunks, chan, wr>>

\* A 'data' event at p with the next k bytes of the stream.
AdData(p) ==
  /\ \E k \in 1..Min(MaxChunkLen, Avail(wire[Other(p)])) :
       LET d == OnData(ad[p], Take(wire[Other(p)], k))
       IN /\ ad' = [ad EXCEPT ![p] = d.ad]
          /\ rd' = [rd EXCEPT ![p].results =
                      IF d.resolved
                      THEN Append(@, ReadResult(ad[p].readLength, d.result)) ELSE @]
          /\ wire' = [wire EXCEPT ![Other(p)] = Drop(@, k)]
  /\ UNCHANGED <<client, codec, opt, peer, atk, sent, chunks, chan, wr>>

NextAdapter ==
  \/ AdRead("B")
  \/ AdData("B")

SpecAdapter == InitAdapter /\ [][NextAdapter]_vars

\* The bytes of the reads rs, one after the other.
RECURSIVE ReadBytes(_)
ReadBytes(rs) == IF rs = <<>> THEN <<>> ELSE Head(rs).bytes \o ReadBytes(Tail(rs))

\* The bytes of the chunks buffered, one after the other.
RECURSIVE Buffered(_)
Buffered(buf) == IF buf = <<>> THEN <<>> ELSE Head(buf) \o Buffered(Tail(buf))

\* C17: a read of n bytes returns n bytes; the bytes the reads have returned,
\* one after the other, are the first bytes of the stream, and followed by
\* the bytes buffered and the bytes still to arrive they are the stream: no
\* byte is lost, repeated or out of its place.
C17_ReadsFollowStream ==
  LET got == ReadBytes(rd["B"].results)
  IN /\ \A i \in 1..Len(rd["B"].results) :
          Avail(rd["B"].results[i].bytes) = rd["B"].results[i].n
     /\ Join(got) = Take(Stream, Avail(got))
     /\ Join(got \o Buffered(ad["B"].readBuffer) \o wire["A"]) = Stream

\* A read was served from two chunks, the rest of the second staying
\* buffered, after a read served from one.
C17_Witness ==
  /\ Len(rd["B"].results) = 2
  /\ Len(rd["B"].results[1].bytes) = 1
  /\ Len(rd["B"].results[2].bytes) = 2
  /\ ad["B"].readBuffer # <<>>

\* ---------------------------------------------------------------------------
\* bincode.ts: the variable-length u32
\* ---------------------------------------------------------------------------

\* A JavaScript number holding an integer is the pair <<hi, lo>> of the integer
\* hi * 65536 + lo with lo in 0..65535, so that every u32 has a representation.
Half == 65536
Num(hi, lo) == <<hi, lo>>

\* n < k for a number n and 0 <= k < 65536.
Less(n, k) == n[1] < 0 \/ (n[1] = 0 /\ n[2] < k)

\* The integer a number of small magnitude holds.
NumValue(n) == n[1] * Half + n[2]

\* ToInt32, which the operators >> and & apply to their left operand: the
\* number modulo 2^32, taken in -2^31..2^31-1.
ToInt32(n) ==
  LET h == n[1] % Half
  IN  (IF h >= 32768 THEN h - Half ELSE h) * Half + n[2]

\* x >>> 0 for a 32-bit integer x: the number in 0..2^32-1 with the same bits.
ToUint32(x) == Num((x \div Half) % Half, x % Half)

\* A 32-bit integer as the number of the same value (no conversion).
FromInt32(x) == Num(x \div Half, x % Half)

\* b << 24 for a byte b: the 32-bit integer whose top byte is b.
Shl24(b) == (IF b >= 128 THEN b - 256 ELSE b) * 16777216

\* A read that returned value, having consumed bytesRead bytes.
ReadOk(value, bytesRead) == [ok |-> TRUE, value |-> value, bytesRead |-> bytesRead]
\* A read that threw ClavisError.deserializationFailed.
DeserializationFailed == [ok |-> FALSE, value |-> Num(0, 0), bytesRead |-> 0]

\* writeU32: x >> k keeps the sign (the floor of x / 2^k) and & 0xff keeps the
\* low byte of it.
WriteU32(buffer, n) ==
  LET x == ToInt32(n)
  IN  buffer \o <<x % 256,
                  (x \div 256) % 256,
                  (x \div 65536) % 256,
                  (x \div 16777216) % 256>>

\* readU32 without the conversion to unsigned.
ReadU32Signed(data, offset) ==
  IF offset + 4 > Len(data) THEN DeserializationFailed
  ELSE ReadOk(FromInt32(data[offset + 1] + data[offset + 2] * 256
                        + data[offset + 3] * 65536 + Shl24(data[offset + 4])), 4)

\* readU32: the four bytes occupy disjoint bits, so that | adds them up as a
\* 32-bit integer, which >>> 0 makes unsigned.  offset counts from 0.
ReadU32(data, offset) ==
  IF offset + 4 > Len(data) THEN DeserializationFailed
  ELSE ReadOk(ToUint32(data[offset + 1] + data[offset + 2] * 256
                       + data[offset + 3] * 65536 + Shl24(data[offset + 4])), 4)

\* writeVarintU32: buffer.push(n) appends the number itself.
WriteVarintU32(buffer, n) ==
  IF Less(n, 251) THEN Append(buffer, NumValue(n))
  ELSE WriteU32(Append(buffer, 251), n)

\* readVarintU32 taking every first byte of 251 or more for the marker.
ReadVarintAnyMarker(data, offset) ==
  IF offset >= Len(data) THEN DeserializationFailed
  ELSE LET first == data[offset + 1]
       IN  IF first < 251 THEN ReadOk(Num(0, first), 1)
           ELSE LET result == ReadU32(data, offset + 1)
                IN  IF result.ok THEN ReadOk(result.value, 1 + result.bytesRead)
                    ELSE DeserializationFailed

\* readVarintU32.
ReadVarintU32(data, offset) ==
  IF offset >= Len(data) THEN DeserializationFailed
  ELSE LET first == data[offset + 1]
       IN  IF first < 251 THEN ReadOk(Num(0, first), 1)
           ELSE IF first = 251
                THEN LET result == ReadU32(data, offset + 1)
                     IN  IF result.ok THEN ReadOk(result.value, 1 + result.bytesRead)
                         ELSE DeserializationFailed
                ELSE DeserializationFailed

\* new Uint8Array(buffer): every element modulo 256.
ToUint8Array(buffer) == [i \in 1..Len(buffer) |-> buffer[i] % 256]

\* The greatest number of bytes already in the buffer the value is written to.
MaxPrefix == 1

\* The halves of the values written: around the one-byte limit, around the byte
\* and sign boundaries, and the greatest.
VarintHalves == {0, 1, 5, 44, 250, 251, 252, 255, 256, 300, 32767, 32768, 65535}
\* n is an integer of 0..2^32-1.
InU32(n) == n[1] \in 0..(Half - 1)
\* The numbers written: those of 0..2^32-1, the negative ones down to -65536
\* and those above, up to 2^32 + 65535.
VarintInputs == {Num(h, l) : h \in VarintHalves \cup {-1, Half}, l \in VarintHalves}

\* The bytes already in the buffer.
Prefix(k) == [i \in 1..k |-> 251]

InitVarint ==
  /\ opt = [p \in Peers |-> [psk |-> NoPsk, maxPacketSize |-> DEFAULT_MAX_PACKET_SIZE]]
  /\ peer = [p \in Peers |-> Fresh]
  /\ wire = [p \in Peers |-> <<>>]
  /\ atk = Idle
  /\ ad = [p \in Peers |-> NewAdapter]
  /\ rd = [p \in Peers |-> NewReader]
  /\ sent = [p \in Peers |-> <<>>]
  /\ chunks = 0
  /\ chan = Intact
  /\ wr = [p \in Peers |-> NotWriting]
  /\ client = NoClient
  /\ \E n \in VarintInputs, k \in 0..MaxPrefix :
       codec = [pc |-> "call", n |-> n, buffer |-> Prefix(k), offset |-> k,
                result |-> DeserializationFailed]

\* writeVarintU32(buffer, n) is called.
VarintWrite ==
  /\ codec.pc = "call"
  /\ codec' = [codec EXCEPT !.pc = "written",
                            !.buffer = WriteVarintU32(codec.buffer, codec.n)]
  /\ UNCHANGED <<client, opt, peer, wire, atk, ad, rd, sent, chunks, chan, wr>>

\* readVarintU32 is called on the bytes of the buffer, at the place the value
\* was written at.
VarintRead ==
  /\ codec.pc = "written"
  /\ codec' = [codec EXCEPT !.pc = "read",
                            !.result = ReadVarintU32(ToUint8Array(codec.buffer),
                                                     codec.offset)]
  /\ UNCHANGED <<client, opt, peer, wire, atk, ad, rd, sent, chunks, chan, wr>>

NextVarint ==
  \/ VarintWrite
  \/ VarintRead

SpecVarint == InitVarint /\ [][NextVarint]_vars

\* What writeVarintU32 appended to the buffer.
Encoding == SubSeq(codec.buffer, codec.offset + 1, Len(codec.buffer))

\* C20: writeVarintU32 writes a value of 0..250 as the one byte equal to it and
\* a value of 251..2^32-1 as the byte 0xFB followed by the four bytes of the
\* value, the least significant first (5 as 05, 300 as FB 2C 01 00 00), and
\* readVarintU32 of these bytes returns the value and the number of bytes
\* written.
C20_VarintRoundTrip ==
  (codec.pc = "read" /\ InU32(codec.n)) =>
    /\ Less(codec.n, 251) => Encoding = <<codec.n[2]>>
    /\ ~Less(codec.n, 251) =>
         /\ Len(Encoding) = 5
         /\ Encoding[1] = 251
         /\ \A i \in 2..5 : Encoding[i] \in 0..255
         /\ Encoding[2] + 256 * Encoding[3] = codec.n[2]
         /\ Encoding[4] + 256 * Encoding[5] = codec.n[1]
    /\ codec.n = Num(0, 5) => Encoding = <<5>>
    /\ codec.n = Num(0, 300) => Encoding = <<251, 44, 1, 0, 0>>
    /\ SubSeq(codec.buffer, 1, codec.offset) = Prefix(codec.offset)
    /\ codec.result = ReadOk(codec.n, Len(Encoding))

\* The greatest u32 has been written after another byte and read back.
C20_Witness ==
  /\ codec.pc = "read"
  /\ codec.n = Num(65535, 65535)
  /\ codec.offset = 1
  /\ codec.buffer = <<251, 251, 255, 255, 255, 255>>
  /\ codec.result = ReadOk(Num(65535, 65535), 5)

\* C21: writeVarintU32 fails for a value that is negative or greater than
\* 2^32-1: it appends nothing to the buffer.
C21_VarintRejectsOutOfRange ==
  (codec.pc \in {"written", "read"} /\ ~InU32(codec.n)) =>
    codec.buffer = Prefix(codec.offset)

\* The part of it that fails worst: the bytes appended for such a value are
\* never read back as another value.
C21_NoOtherValueDecoded ==
  (codec.pc = "read" /\ ~InU32(codec.n)) => ~codec.result.ok

\* ---------------------------------------------------------------------------
\* bincode.ts: the integers of fixed width
\* ---------------------------------------------------------------------------

\* A bigint is the tuple <<h3, h2, h1, h0>> of the integer
\* h3 * 2^48 + h2 * 2^32 + h1 * 2^16 + h0 with h2, h1, h0 in 0..65535.
Big(h3, h2, h1, h0) == <<h3, h2, h1, h0>>

\* Number(n & 0xffffffffn) and Number((n >> 32n) & 0xffffffffn) of a bigint n.
LowWord(n) == Num(n[3], n[4])
HighWord(n) == Num(n[1] % Half, n[2])

\* writeU8.
WriteU8(buffer, n) == Append(buffer, ToInt32(n) % 256)

\* writeU16.
WriteU16(buffer, n) ==
  LET x == ToInt32(n)
  IN  buffer \o <<x % 256, (x \div 256) % 256>>

\* writeI32: 0x100000000 + n for a negative n.
WriteI32(buffer, n) ==
  LET value == IF Less(n, 0) THEN Num(n[1] + Half, n[2]) ELSE n
  IN  WriteU32(buffer, value)

\* writeU64.
WriteU64(buffer, n) == WriteU32(WriteU32(buffer, LowWord(n)), HighWord(n))

\* writeI64: 0x10000000000000000n + n for a negative n.
WriteI64(buffer, n) ==
  LET value == IF n[1] < 0 THEN Big(n[1] + Half, n[2], n[3], n[4]) ELSE n
  IN  WriteU32(WriteU32(buffer, LowWord(value)), HighWord(value))

\* readU8.
ReadU8(data, offset) ==
  IF offset >= Len(data) THEN DeserializationFailed
  ELSE ReadOk(Num(0, data[offset + 1]), 1)

\* readU16.
ReadU16(data, offset) ==
  IF offset + 2 > Len(data) THEN DeserializationFailed
  ELSE ReadOk(Num(0, data[offset + 1] + data[offset + 2] * 256), 2)

\* readI32: the 32-bit integer the four bytes make, as it is.
ReadI32(data, offset) ==
  IF offset + 4 > Len(data) THEN DeserializationFailed
  ELSE ReadOk(FromInt32(data[offset + 1] + data[offset + 2] * 256
                        + data[offset + 3] * 65536 + Shl24(data[offset + 4])), 4)

\* readU64: BigInt(x) & 0xffffffffn is the unsigned value of the 32 bits of x.
ReadU64(data, offset) ==
  IF offset + 8 > Len(data) THEN DeserializationFailed
  ELSE LET low == ToUint32(data[offset + 1] + data[offset + 2] * 256
                           + data[offset + 3] * 65536 + Shl24(data[offset + 4]))
           high == ToUint32(data[offset + 5] + data[offset + 6] * 256
                            + data[offset + 7] * 65536 + Shl24(data[offset + 8]))
       IN  ReadOk(Big(high[1], high[2], low[1], low[2]), 8)

\* readI64 without the conversion to signed.
ReadI64Unsigned(data, offset) == ReadU64(data, offset)

\* readI64: unsigned - 2^64 when unsigned >= 2^63.
ReadI64(data, offset) ==
  IF offset + 8 > Len(data) THEN DeserializationFailed
  ELSE LET unsigned == ReadU64(data, offset).value
       IN  IF unsigned[1] >= 32768
           THEN ReadOk(Big(unsigned[1] - Half, unsigned[2], unsigned[3], unsigned[4]), 8)
           ELSE ReadOk(unsigned, 8)

Types == {"u8", "u16", "u32", "i32", "u64", "i64"}

\* The matching write and read functions of a type.
WriteOf(ty, buffer, n) ==
  CASE ty = "u8" -> WriteU8(buffer, n)
    [] ty = "u16" -> WriteU16(buffer, n)
    [] ty = "u32" -> WriteU32(buffer, n)
    [] ty = "i32" -> WriteI32(buffer, n)
    [] ty = "u64" -> WriteU64(buffer, n)
    [] ty = "i64" -> WriteI64(buffer, n)

ReadOf(ty, data, offset) ==
  CASE ty = "u8" -> ReadU8(data, offset)
    [] ty = "u16" -> ReadU16(data, offset)
    [] ty = "u32" -> ReadU32(data, offset)
    [] ty = "i32" -> ReadI32(data, offset)
    [] ty = "u64" -> ReadU64(data, offset)
    [] ty = "i64" -> ReadI64(data, offset)

\* The halves of the values written: 0, the greatest, and those around the
\* byte and sign boundaries.
FixedHalves == {0, 1, 255, 256, 32767, 32768, 65535}
\* The same as the top half of a signed value: -32768..32767.
SignedHalves == {IF h >= 32768 THEN h - Half ELSE h : h \in FixedHalves}

\* The values of the full range of a type that are written.
FixedInputs(ty) ==
  CASE ty = "u8" -> {Num(0, l) : l \in 0..255}
    [] ty = "u16" -> {Num(0, l) : l \in FixedHalves}
    [] ty = "u32" -> {Num(h, l) : h \in FixedHalves, l \in FixedHalves}
    [] ty = "i32" -> {Num(h, l) : h \in SignedHalves, l \in FixedHalves}
    [] ty = "u64" -> {Big(h3, h2, h1, h0) : h3 \in FixedHalves, h2 \in FixedHalves,
                                            h1 \in FixedHalves, h0 \in FixedHalves}
    [] ty = "i64" -> {Big(h3, h2, h1, h0) : h3 \in SignedHalves, h2 \in FixedHalves,
                                            h1 \in FixedHalves, h0 \in FixedHalves}

InitFixed ==
  /\ opt = [p \in Peers |-> [psk |-> NoPsk, maxPacketSize |-> DEFAULT_MAX_PACKET_SIZE]]
  /\ peer = [p \in Peers |-> Fresh]
  /\ wire = [p \in Peers |-> <<>>]
  /\ atk = Idle
  /\ ad = [p \in Peers |-> NewAdapter]
  /\ rd = [p \in Peers |-> NewReader]
  /\ sent = [p \in Peers |-> <<>>]
  /\ chunks = 0
  /\ chan = Intact
  /\ wr = [p \in Peers |-> NotWriting]
  /\ client = NoClient
  /\ \E ty \in Types, k \in 0..MaxPrefix : \E n \in FixedInputs(ty) :
       codec = [pc |-> "call", ty |-> ty, n |-> n, buffer |-> Prefix(k),
                offset |-> k, result |-> DeserializationFailed]

\* The write function of the type is called on the buffer.
FixedWrite ==
  /\ codec.pc = "call"
  /\ codec' = [codec EXCEPT !.pc = "written",
                            !.buffer = WriteOf(codec.ty, codec.buffer, codec.n)]
  /\ UNCHANGED <<client, opt, peer, wire, atk, ad, rd, sent, chunks, chan, wr>>

\* The read function of the type is called on the bytes of the buffer, at the
\* place the value was written at.
FixedRead ==
  /\ codec.pc = "written"
  /\ codec' = [codec EXCEPT !.pc = "read",
                            !.result = ReadOf(codec.ty, ToUint8Array(codec.buffer),
                                              codec.offset)]
  /\ UNCHANGED <<client, opt, peer, wire, atk, ad, rd, sent, chunks, chan, wr>>

NextFixed ==
  \/ FixedWrite
  \/ FixedRead

SpecFixed == InitFixed /\ [][NextFixed]_vars

\* The number of bytes of a type.
Width(ty) ==
  CASE ty = "u8" -> 1
    [] ty = "u16" -> 2
    [] ty \in {"u32", "i32"} -> 4
    [] ty \in {"u64", "i64"} -> 8

\* The little-endian two's-complement encoding of v in w bytes: byte i holds
\* the bits 8(i-1)..8i-1 of v modulo 2^(8w).
LittleEndian(v, w) ==
  [i \in 1..w |->
     LET half == v[Len(v) - ((i - 1) \div 2)] % Half
     IN  IF i % 2 = 1 THEN half % 256 ELSE half \div 256]

\* C22: for every value of the range of u8, u16, u32, i32, u64 and i64, the
\* write function appends the little-endian two's-complement encoding of the
\* value in the width of the type, and the matching read function returns the
\* value from it.
C22_FixedRoundTrip ==
  codec.pc = "read" =>
    /\ Encoding = LittleEndian(codec.n, Width(codec.ty))
    /\ SubSeq(codec.buffer, 1, codec.offset) = Prefix(codec.offset)
    /\ codec.result = ReadOk(codec.n, Width(codec.ty))

\* The least i64 has been written after another byte and read back.
C22_Witness ==
  /\ codec.pc = "read"
  /\ codec.ty = "i64"
  /\ codec.n = Big(-32768, 0, 0, 0)
  /\ codec.offset = 1
  /\ codec.buffer = <<251, 0, 0, 0, 0, 0, 0, 0, 128>>
  /\ codec.result = ReadOk(Big(-32768, 0, 0, 0), 8)

\* ---------------------------------------------------------------------------
\* bincode.ts: DateTime
\* ---------------------------------------------------------------------------

\* A Date is the integer of its getTime(), in milliseconds.

\* A number of 2^31 or more, which no length of a buffer reaches.
Huge == 2147483647

\* a % b of JavaScript for b > 0: the remainder has the sign of a.
Rem(a, b) == IF a >= 0 THEN a % b ELSE 0 - ((0 - a) % b)

\* The number and the bigint holding an integer of -2^31..2^31-1.
NumOf(x) == Num(x \div Half, x % Half)
BigOf(x) == Big(IF x < 0 THEN -1 ELSE 0, IF x < 0 THEN Half - 1 ELSE 0,
                (x \div Half) % Half, x % Half)

\* Number(b) for a bigint b of -2^31..2^31-1.
NumberOfBig(b) == (IF b[1] < 0 THEN b[3] - Half ELSE b[3]) * Half + b[4]

\* The seconds b are within 2147479 seconds of the epoch: the Dates further
\* away are beyond 32-bit integers and all stand for Huge.
NearEpoch(b) ==
  /\ \/ b[1] = 0 /\ b[2] = 0 /\ b[3] < 32768
     \/ b[1] = -1 /\ b[2] = Half - 1 /\ b[3] >= 32768
  /\ NumberOfBig(b) \in -2147479..2147479

\* Math.floor(n / 1_000_000) for a number n of 0..2^32-1: 1_000_000 is
\* 64 * 15625, and the floor of a floor is the floor.
FloorMillion(n) == (n[1] * 1024 + n[2] \div 64) \div 15625

\* writeDateTime: Math.floor(ms / 1000) is the floored quotient and ms % 1000
\* the remainder with the sign of ms.
WriteDateTime(buffer, date) ==
  LET msSinceEpoch == date
      secs == BigOf(msSinceEpoch \div 1000)
      nsecs == NumOf(Rem(msSinceEpoch, 1000) * 1000000)
  IN  WriteU32(WriteI64(buffer, secs), nsecs)

\* readDateTime.
ReadDateTime(data, offset) ==
  LET secsResult == ReadI64(data, offset)
      nsecsResult == ReadU32(data, offset + secsResult.bytesRead)
  IN  IF ~secsResult.ok \/ ~nsecsResult.ok THEN DeserializationFailed
      ELSE [ok |-> TRUE,
            value |-> IF NearEpoch(secsResult.value)
                      THEN NumberOfBig(secsResult.value) * 1000
                           + FloorMillion(nsecsResult.value)
                      ELSE Huge,
            bytesRead |-> secsResult.bytesRead + nsecsResult.bytesRead]

\* The timestamps written are those of -MaxMs..MaxMs and some far from 0.
MaxMs == 1200
DateInputs == (0 - MaxMs)..MaxMs \cup {86400000, -86399999, 2147479999, -2147479999}

InitDate ==
  /\ opt = [p \in Peers |-> [psk |-> NoPsk, maxPacketSize |-> DEFAULT_MAX_PACKET_SIZE]]
  /\ peer = [p \in Peers |-> Fresh]
  /\ wire = [p \in Peers |-> <<>>]
  /\ atk = Idle
  /\ ad = [p \in Peers |-> NewAdapter]
  /\ rd = [p \in Peers |-> NewReader]
  /\ sent = [p \in Peers |-> <<>>]
  /\ chunks = 0
  /\ chan = Intact
  /\ wr = [p \in Peers |-> NotWriting]
  /\ client = NoClient
  /\ \E ms \in DateInputs, k \in 0..MaxPrefix :
       codec = [pc |-> "call", n |-> ms, buffer |-> Prefix(k), offset |-> k,
                result |-> DeserializationFailed]

\* writeDateTime(buffer, date) is called.
DateWrite ==
  /\ codec.pc = "call"
  /\ codec' = [codec EXCEPT !.pc = "written",
                            !.buffer = WriteDateTime(codec.buffer, codec.n)]
  /\ UNCHANGED <<client, opt, peer, wire, atk, ad, rd, sent, chunks, chan, wr>>

\* readDateTime is called on the bytes of the buffer, at the place the date was
\* written at.
DateRead ==
  /\ codec.pc = "written"
  /\ codec' = [codec EXCEPT !.pc = "read",
                            !.result = ReadDateTime(ToUint8Array(codec.buffer),
                                                    codec.offset)]
  /\ UNCHANGED <<client, opt, peer, wire, atk, ad, rd, sent, chunks, chan, wr>>

NextDate ==
  \/ DateWrite
  \/ DateRead

SpecDate == InitDate /\ [][NextDate]_vars

\* The secs and nsecs that the 12 bytes written hold.
EmittedSecs == ReadI64(ToUint8Array(Encoding), 0).value
EmittedNsecs == ReadU32(ToUint8Array(Encoding), 8).value

\* C23: for every timestamp ms, writeDateTime emits 12 bytes holding
\* secs = floor(ms / 1000) and nsecs = (ms mod 1000) * 1_000_000, which is in
\* 0..999_999_999, and readDateTime of them returns the Date of ms.
C23_DateTimeFloored ==
  codec.pc = "read" =>
    /\ Len(Encoding) = 12
    /\ EmittedSecs = BigOf(codec.n \div 1000)
    /\ EmittedNsecs = NumOf((codec.n % 1000) * 1000000)
    /\ codec.result.ok
    /\ codec.result.value = codec.n
    /\ codec.result.bytesRead = 12

\* The same for the timestamps that are not negative or are whole seconds.
C23_RoundTripFromEpoch ==
  (codec.pc = "read" /\ (codec.n >= 0 \/ codec.n % 1000 = 0)) =>
    /\ Len(Encoding) = 12
    /\ EmittedSecs = BigOf(codec.n \div 1000)
    /\ EmittedNsecs = NumOf((codec.n % 1000) * 1000000)
    /\ codec.result.ok
    /\ codec.result.value = codec.n
    /\ codec.result.bytesRead = 12

\* ---------------------------------------------------------------------------
\* bincode.ts: strings, options and sequences
\* ---------------------------------------------------------------------------

\* A string is the sequence of its code points (below U+10000), a Uint8Array
\* value the sequence of its bytes, an optional value <<>> (undefined) or <<v>>,
\* a pair of strings <<key, value>>.

\* Number(b) for the bigint b that readU64 returned.
LengthOf(b) ==
  IF b[1] = 0 /\ b[2] = 0 /\ b[3] < 32768 THEN b[3] * Half + b[4] ELSE Huge

\* new TextDecoder().decode(bytes): a byte that begins no character of one to
\* three bytes becomes U+FFFD.
RECURSIVE TextDecode(_)
TextDecode(bytes) ==
  IF bytes = <<>> THEN <<>>
  ELSE LET b == Head(bytes)
           cont(i) == Len(bytes) >= i /\ bytes[i] \in 128..191
       IN  IF b < 128 THEN <<b>> \o TextDecode(Tail(bytes))
           ELSE IF b \in 194..223 /\ cont(2)
             THEN <<(b - 192) * 64 + (bytes[2] - 128)>>
                  \o TextDecode(SubSeq(bytes, 3, Len(bytes)))
           ELSE IF b \in 224..239 /\ cont(2) /\ cont(3)
                   /\ (b = 224 => bytes[2] >= 160) /\ (b = 237 => bytes[2] < 160)
             THEN <<(b - 224) * 4096 + (bytes[2] - 128) * 64 + (bytes[3] - 128)>>
                  \o TextDecode(SubSeq(bytes, 4, Len(bytes)))
           ELSE <<65533>> \o TextDecode(Tail(bytes))

\* writeString.
WriteString(buffer, s) ==
  LET bytes == Utf8Encode(s)
  IN  WriteU64(buffer, BigOf(Len(bytes))) \o bytes

\* writeOptionString.
WriteOptionString(buffer, s) ==
  IF s = <<>> THEN Append(buffer, 0)
  ELSE WriteString(Append(buffer, 1), s[1])

\* writeOptionU32.
WriteOptionU32(buffer, n) ==
  IF n = <<>> THEN Append(buffer, 0)
  ELSE WriteU32(Append(buffer, 1), n[1])

\* The loop of writeStringVec.
RECURSIVE WriteStrings(_, _)
WriteStrings(buffer, strings) ==
  IF strings = <<>> THEN buffer
  ELSE WriteStrings(WriteString(buffer, Head(strings)), Tail(strings))

\* writeStringVec.
WriteStringVec(buffer, strings) ==
  WriteStrings(WriteU64(buffer, BigOf(Len(strings))), strings)

\* The loop of writeStringPairVec.
RECURSIVE WritePairs(_, _)
WritePairs(buffer, pairs) ==
  IF pairs = <<>> THEN buffer
  ELSE WritePairs(WriteString(WriteString(buffer, Head(pairs)[1]), Head(pairs)[2]),
                  Tail(pairs))

\* writeStringPairVec.
WriteStringPairVec(buffer, pairs) ==
  WritePairs(WriteU64(buffer, BigOf(Len(pairs))), pairs)

\* A read that returned value (of any type).
ReadValue(value, bytesRead) == [ok |-> TRUE, value |-> value, bytesRead |-> bytesRead]

\* readBytes of bincode.ts: start + length > data.length is
\* length > data.length - start.
BincodeReadBytes(data, offset) ==
  LET lenResult == ReadU64(data, offset)
      length == LengthOf(lenResult.value)
      start == offset + lenResult.bytesRead
  IN  IF ~lenResult.ok THEN DeserializationFailed
      ELSE IF length > Len(data) - start THEN DeserializationFailed
      ELSE ReadValue(SubSeq(data, start + 1, start + length),
                     lenResult.bytesRead + length)

\* readString.
ReadString(data, offset) ==
  LET lenResult == ReadU64(data, offset)
      length == LengthOf(lenResult.value)
      start == offset + lenResult.bytesRead
  IN  IF ~lenResult.ok THEN DeserializationFailed
      ELSE IF length > Len(data) - start THEN DeserializationFailed
      ELSE ReadValue(TextDecode(SubSeq(data, start + 1, start + length)),
                     lenResult.bytesRead + length)

\* readOptionString.
ReadOptionString(data, offset) ==
  LET discriminant == ReadU8(data, offset)
  IN  IF ~discriminant.ok THEN DeserializationFailed
      ELSE IF discriminant.value = Num(0, 0) THEN ReadValue(<<>>, 1)
      ELSE LET stringResult == ReadString(data, offset + 1)
           IN  IF ~stringResult.ok THEN DeserializationFailed
               ELSE ReadValue(<<stringResult.value>>, 1 + stringResult.bytesRead)

\* readOptionU32.
ReadOptionU32(data, offset) ==
  LET discriminant == ReadU8(data, offset)
  IN  IF ~discriminant.ok THEN DeserializationFailed
      ELSE IF discriminant.value = Num(0, 0) THEN ReadValue(<<>>, 1)
      ELSE LET valueResult == ReadU32(data, offset + 1)
           IN  IF ~valueResult.ok THEN DeserializationFailed
               ELSE ReadValue(<<valueResult.value>>, 1 + valueResult.bytesRead)

\* The loop of readStringVec: left strings are still to read, strings have
\* been read and bytesRead bytes consumed.
RECURSIVE ReadStrings(_, _, _, _, _)
ReadStrings(data, offset, left, strings, bytesRead) ==
  IF left = 0 THEN ReadValue(strings, bytesRead)
  ELSE LET stringResult == ReadString(data, offset + bytesRead)
       IN  IF ~stringResult.ok THEN DeserializationFailed
           ELSE ReadStrings(data, offset, left - 1,
                            Append(strings, stringResult.value),
                            bytesRead + stringResult.bytesRead)

\* readStringVec.
ReadStringVec(data, offset) ==
  LET lenResult == ReadU64(data, offset)
  IN  IF ~lenResult.ok THEN DeserializationFailed
      ELSE ReadStrings(data, offset, LengthOf(lenResult.value), <<>>,
                       lenResult.bytesRead)

\* The loop of readStringPairVec.
RECURSIVE ReadPairs(_, _, _, _, _)
ReadPairs(data, offset, left, pairs, bytesRead) ==
  IF left = 0 THEN ReadValue(pairs, bytesRead)
  ELSE LET keyResult == ReadString(data, offset + bytesRead)
       IN  IF ~keyResult.ok THEN DeserializationFailed
           ELSE LET valueResult ==
                      ReadString(data, offset + bytesRead + keyResult.bytesRead)
                IN  IF ~valueResult.ok THEN DeserializationFailed
                    ELSE ReadPairs(data, offset, left - 1,
                                   Append(pairs, <<keyResult.value, valueResult.value>>),
                                   bytesRead + keyResult.bytesRead
                                   + valueResult.bytesRead)

\* readStringPairVec.
ReadStringPairVec(data, offset) ==
  LET lenResult == ReadU64(data, offset)
  IN  IF ~lenResult.ok THEN DeserializationFailed
      ELSE ReadPairs(data, offset, LengthOf(lenResult.value), <<>>,
                     lenResult.bytesRead)

ReadFns == {"readU8", "readU16", "readU32", "readI32", "readU64", "readI64",
            "readVarintU32", "readString", "readOptionString", "readOptionU32",
            "readStringVec", "readStringPairVec", "readDateTime", "readBytes"}

\* The strings written.
Strings == {<<>>, <<97>>, <<97, 233>>}

\* The values whose encoding is read by a function.
ReadValues(fn) ==
  CASE fn = "readU8" -> {Num(0, 0), Num(0, 255)}
    [] fn = "readU16" -> {Num(0, 65535)}
    [] fn = "readU32" -> {Num(0, 7), Num(65535, 65535)}
    [] fn = "readI32" -> {Num(-1, 65535)}
    [] fn = "readU64" -> {Big(65535, 65535, 65535, 65535)}
    [] fn = "readI64" -> {Big(-1, 65535, 65535, 65535)}
    [] fn = "readVarintU32" -> {Num(0, 5), Num(0, 250), Num(0, 300), Num(65535, 65535)}
    [] fn \in {"readString", "readBytes"} -> Strings
    [] fn = "readOptionString" -> {<<>>} \cup {<<str>> : str \in Strings}
    [] fn = "readOptionU32" -> {<<>>, <<Num(0, 7)>>, <<Num(65535, 65535)>>}
    [] fn = "readStringVec" -> {<<>>, <<<<97>>>>, <<<<>>, <<97, 233>>>>}
    [] fn = "readStringPairVec" -> {<<>>, << <<<<97>>, <<>>>> >>,
                                    << <<<<97>>, <<233>>>>, <<<<>>, <<97>>>> >>}
    [] fn = "readDateTime" -> {0, 1500}

\* The write function whose encoding a read function reads (the bytes of a
\* Uint8Array value are laid out as writeString lays out a string of them).
WriteFor(fn, buffer, v) ==
  CASE fn = "readU8" -> WriteU8(buffer, v)
    [] fn = "readU16" -> WriteU16(buffer, v)
    [] fn = "readU32" -> WriteU32(buffer, v)
    [] fn = "readI32" -> WriteI32(buffer, v)
    [] fn = "readU64" -> WriteU64(buffer, v)
    [] fn = "readI64" -> WriteI64(buffer, v)
    [] fn = "readVarintU32" -> WriteVarintU32(buffer, v)
    [] fn \in {"readString", "readBytes"} -> WriteString(buffer, v)
    [] fn = "readOptionString" -> WriteOptionString(buffer, v)
    [] fn = "readOptionU32" -> WriteOptionU32(buffer, v)
    [] fn = "readStringVec" -> WriteStringVec(buffer, v)
    [] fn = "readStringPairVec" -> WriteStringPairVec(buffer, v)
    [] fn = "readDateTime" -> WriteDateTime(buffer, v)

ReadFor(fn, data, offset) ==
  CASE fn = "readU8" -> ReadU8(data, offset)
    [] fn = "readU16" -> ReadU16(data, offset)
    [] fn = "readU32" -> ReadU32(data, offset)
    [] fn = "readI32" -> ReadI32(data, offset)
    [] fn = "readU64" -> ReadU64(data, offset)
    [] fn = "readI64" -> ReadI64(data, offset)
    [] fn = "readVarintU32" -> ReadVarintU32(data, offset)
    [] fn = "readString" -> ReadString(data, offset)
    [] fn = "readBytes" -> BincodeReadBytes(data, offset)
    [] fn = "readOptionString" -> ReadOptionString(data, offset)
    [] fn = "readOptionU32" -> ReadOptionU32(data, offset)
    [] fn = "readStringVec" -> ReadStringVec(data, offset)
    [] fn = "readStringPairVec" -> ReadStringPairVec(data, offset)
    [] fn = "readDateTime" -> ReadDateTime(data, offset)

\* The functions whose encoding begins with a tag or a marker byte.
TaggedFns == {"readOptionString", "readOptionU32", "readVarintU32"}

InitRead ==
  /\ opt = [p \in Peers |-> [psk |-> NoPsk, maxPacketSize |-> DEFAULT_MAX_PACKET_SIZE]]
  /\ peer = [p \in Peers |-> Fresh]
  /\ wire = [p \in Peers |-> <<>>]
  /\ atk = Idle
  /\ ad = [p \in Peers |-> NewAdapter]
  /\ rd = [p \in Peers |-> NewReader]
  /\ sent = [p \in Peers |-> <<>>]
  /\ chunks = 0
  /\ chan = Intact
  /\ wr = [p \in Peers |-> NotWriting]
  /\ client = NoClient
  /\ \E fn \in ReadFns, k \in 0..MaxPrefix : \E v \in ReadValues(fn) :
       codec = [pc |-> "call", fn |-> fn, n |-> v, buffer |-> Prefix(k),
                offset |-> k, data |-> <<>>, input |-> "none",
                result |-> DeserializationFailed]

\* The matching write function is called on the buffer and the buffer made a
\* Uint8Array.
ReadWrite ==
  /\ codec.pc = "call"
  /\ codec' = [codec EXCEPT
       !.pc = "written",
       !.buffer = WriteFor(codec.fn, codec.buffer, codec.n),
       !.data = ToUint8Array(WriteFor(codec.fn, codec.buffer, codec.n)),
       !.input = "whole"]
  /\ UNCHANGED <<client, opt, peer, wire, atk, ad, rd, sent, chunks, chan, wr>>

\* The input is only the first k bytes of it, at least one byte short.
ReadTruncate ==
  /\ codec.pc = "written"
  /\ codec.input = "whole"
  /\ \E k \in 0..(Len(codec.data) - 1) :
       codec' = [codec EXCEPT !.data = SubSeq(codec.data, 1, k), !.input = "truncated"]
  /\ UNCHANGED <<client, opt, peer, wire, atk, ad, rd, sent, chunks, chan, wr>>

\* The input begins with another tag or marker byte than the one written.
ReadRetag ==
  /\ codec.pc = "written"
  /\ codec.input = "whole"
  /\ codec.fn \in TaggedFns
  /\ \E b \in 0..255 :
       /\ b # codec.data[codec.offset + 1]
       /\ codec' = [codec EXCEPT !.data[codec.offset + 1] = b, !.input = "retagged"]
  /\ UNCHANGED <<client, opt, peer, wire, atk, ad, rd, sent, chunks, chan, wr>>

\* The functions whose encoding begins with a length of 8 bytes.
SizedFns == {"readString", "readBytes", "readStringVec", "readStringPairVec"}

\* The input declares a greater length than the one written: one byte of the
\* length is 255 instead.
ReadLengthen ==
  /\ codec.pc = "written"
  /\ codec.input = "whole"
  /\ codec.fn \in SizedFns
  /\ \E i \in 1..8 :
       /\ codec.data[codec.offset + i] # 255
       /\ codec' = [codec EXCEPT !.data[codec.offset + i] = 255,
                                 !.input = "lengthened"]
  /\ UNCHANGED <<client, opt, peer, wire, atk, ad, rd, sent, chunks, chan, wr>>

\* The read function is called on the input at the offset.
ReadCall ==
  /\ codec.pc = "written"
  /\ codec' = [codec EXCEPT !.pc = "read",
                            !.result = ReadFor(codec.fn, codec.data, codec.offset)]
  /\ UNCHANGED <<client, opt, peer, wire, atk, ad, rd, sent, chunks, chan, wr>>

NextRead ==
  \/ ReadWrite
  \/ ReadTruncate
  \/ ReadRetag
  \/ ReadLengthen
  \/ ReadCall

SpecRead == InitRead /\ [][NextRead]_vars

\* The tag or marker byte the input begins with.
Tag == codec.data[codec.offset + 1]

\* C24: readOptionString and readOptionU32 return undefined with 1 byte
\* consumed for the tag 0 and fail for every tag of 2..255.
C24_OptionTag ==
  (codec.pc = "read" /\ codec.fn \in {"readOptionString", "readOptionU32"}
     /\ codec.input = "retagged") =>
    /\ Tag = 0 => codec.result.ok /\ codec.result.value = <<>>
                  /\ codec.result.bytesRead = 1
    /\ Tag \in 2..255 => ~codec.result.ok

\* The part of it that holds: the tags 0 and 1 are read as absent and present.
C24_TagsZeroAndOne ==
  (codec.pc = "read" /\ codec.fn \in {"readOptionString", "readOptionU32"}
     /\ codec.input \in {"whole", "retagged"} /\ Tag \in {0, 1}) =>
    /\ Tag = 0 => codec.result.ok /\ codec.result.value = <<>>
                  /\ codec.result.bytesRead = 1
    /\ (Tag = 1 /\ codec.input = "whole") =>
         codec.result.ok /\ codec.result.value = codec.n
         /\ codec.result.bytesRead = Len(codec.data) - codec.offset

\* C25: every read function fails on an input that ends before the encoding
\* it reads does (a declared length of a string or of a sequence then exceeds
\* the bytes that remain), and readVarintU32 fails on the markers 0xFC..0xFF.
C25_TruncatedFails ==
  codec.pc = "read" =>
    /\ codec.input \in {"truncated", "lengthened"} => ~codec.result.ok
    /\ (codec.input = "retagged" /\ codec.fn = "readVarintU32" /\ Tag \in 252..255)
         => ~codec.result.ok

\* A sequence of two pairs of strings has been read from an input whose last
\* byte is missing, and has failed.
C25_Witness ==
  /\ codec.pc = "read"
  /\ codec.fn = "readStringPairVec"
  /\ Len(codec.n) = 2
  /\ codec.input = "truncated"
  /\ Len(codec.data) = Len(codec.buffer) - 1
  /\ ~codec.result.ok

\* ---------------------------------------------------------------------------
\* protocol.ts: createProtocolCodec
\* ---------------------------------------------------------------------------

\* The number of variants of the codec: enough for indices of 5 varint bytes.
NumVariants == 253
\* A variant name is an integer; the variants list holds distinct names.
VariantName(i) == 1000 + i
Variants == [i \in 1..NumVariants |-> VariantName(i - 1)]
\* A name the list does not hold.
UnknownName == 999

\* undefined, of a Map.get that finds nothing.
Undefined == -2

\* nameToIndex.get(type): the last position the name was set at.
NameToIndex(variants, type) ==
  LET at == {i \in 1..Len(variants) : variants[i] = type}
  IN  IF at = {} THEN Undefined ELSE (CHOOSE i \in at : \A j \in at : j <= i) - 1

\* indexToName.get(index) for a number index.
IndexToName(variants, index) ==
  IF index[1] = 0 /\ index[2] < Len(variants) THEN variants[index[2] + 1]
  ELSE Undefined

\* What encode returned, or that it threw serializationFailed.
Encoded(out) == [ok |-> TRUE, out |-> out]
SerializationFailed == [ok |-> FALSE, out |-> <<>>]

\* encode(type, data): data is <<>> when absent and <<bytes>> else.
ProtocolEncode(variants, useVarint, type, data) ==
  LET index == NameToIndex(variants, type)
      buffer == IF useVarint THEN WriteVarintU32(<<>>, NumOf(index))
                ELSE WriteU32(<<>>, NumOf(index))
  IN  IF index = Undefined THEN SerializationFailed
      ELSE Encoded(ToUint8Array(IF data # <<>> THEN buffer \o data[1] ELSE buffer))

\* What decode returned, or that it threw deserializationFailed.
Decoded(type, index, data) == [ok |-> TRUE, type |-> type, index |-> index, data |-> data]
DecodeFailed == [ok |-> FALSE, type |-> Undefined, index |-> Num(0, 0), data |-> <<>>]

\* decode(data).
ProtocolDecode(variants, useVarint, data) ==
  IF Len(data) < 4 THEN DecodeFailed
  ELSE LET result == IF useVarint THEN ReadVarintU32(data, 0) ELSE ReadU32(data, 0)
       IN  IF ~result.ok THEN DecodeFailed
           ELSE LET type == IndexToName(variants, result.value)
                IN  IF type = Undefined THEN DecodeFailed
                    ELSE Decoded(type, result.value,
                                 SubSeq(data, result.bytesRead + 1, Len(data)))

\* The greatest length of a payload.
MaxPayload == 4
\* The payloads: absent, or the first bytes of 7, 8, 9, ...
PayloadOf(k) == [i \in 1..k |-> 6 + i]
ProtoPayloads == {<<>>} \cup {<<PayloadOf(k)>> : k \in 0..MaxPayload}
\* The names encoded: the first, one of 1 varint byte, the last of these, the
\* first of 5 varint bytes, the last, and one the codec does not have.
ProtoTypes == {VariantName(i) : i \in {0, 2, 250, 251, NumVariants - 1}} \cup {UnknownName}
\* Indices the codec does not have.
UnknownIndices == {Num(0, NumVariants), Num(0, 999), Num(65535, 65535)}

InitProto ==
  /\ opt = [p \in Peers |-> [psk |-> NoPsk, maxPacketSize |-> DEFAULT_MAX_PACKET_SIZE]]
  /\ peer = [p \in Peers |-> Fresh]
  /\ wire = [p \in Peers |-> <<>>]
  /\ atk = Idle
  /\ ad = [p \in Peers |-> NewAdapter]
  /\ rd = [p \in Peers |-> NewReader]
  /\ sent = [p \in Peers |-> <<>>]
  /\ chunks = 0
  /\ chan = Intact
  /\ wr = [p \in Peers |-> NotWriting]
  /\ client = NoClient
  /\ \E useVarint \in BOOLEAN, type \in ProtoTypes, d \in ProtoPayloads :
       codec = [pc |-> "call", useVarint |-> useVarint, type |-> type, payload |-> d,
                input |-> "none", encoded |-> SerializationFailed,
                result |-> DecodeFailed]

\* codec.encode(type, data) is called.
ProtoEncode ==
  /\ codec.pc = "call"
  /\ codec' = [codec EXCEPT
       !.pc = "encoded",
       !.input = "encoded",
       !.encoded = ProtocolEncode(Variants, codec.useVarint, codec.type, codec.payload)]
  /\ UNCHANGED <<client, opt, peer, wire, atk, ad, rd, sent, chunks, chan, wr>>

\* A message arrives that carries an index the codec does not have, before the
\* same payload.
ProtoUnknownIndex ==
  /\ codec.pc = "encoded"
  /\ codec.input = "encoded"
  /\ codec.encoded.ok
  /\ \E index \in UnknownIndices :
       codec' = [codec EXCEPT
         !.input = "unknown",
         !.encoded = Encoded(ToUint8Array(
             (IF codec.useVarint THEN WriteVarintU32(<<>>, index)
              ELSE WriteU32(<<>>, index))
             \o (IF codec.payload # <<>> THEN codec.payload[1] ELSE <<>>)))]
  /\ UNCHANGED <<client, opt, peer, wire, atk, ad, rd, sent, chunks, chan, wr>>

\* codec.decode is called on the message.
ProtoDecode ==
  /\ codec.pc = "encoded"
  /\ codec.encoded.ok
  /\ codec' = [codec EXCEPT
       !.pc = "decoded",
       !.result = ProtocolDecode(Variants, codec.useVarint, codec.encoded.out)]
  /\ UNCHANGED <<client, opt, peer, wire, atk, ad, rd, sent, chunks, chan, wr>>

NextProto ==
  \/ ProtoEncode
  \/ ProtoUnknownIndex
  \/ ProtoDecode

SpecProto == InitProto /\ [][NextProto]_vars

\* The position of the name in the variants list.
PositionOf(type) == type - VariantName(0)
\* The bytes of the payload.
PayloadBytes == IF codec.payload # <<>> THEN codec.payload[1] ELSE <<>>

\* decode returned the name, its position and the payload encoded.
RoundTripped ==
  /\ codec.result.ok
  /\ codec.result.type = codec.type
  /\ codec.result.index = Num(0, PositionOf(codec.type))
  /\ codec.result.data = PayloadBytes

\* C26: with useVarint false or true, decode(encode(t, d)) returns t, the
\* position of t in the variants list and d, for every name t of the codec and
\* every payload d, absent and empty included; encode of an unknown name fails
\* and decode of an unknown index fails.
C26_CodecRoundTrip ==
  /\ (codec.pc = "encoded" /\ codec.input = "encoded") =>
       (codec.encoded.ok <=> codec.type # UnknownName)
  /\ (codec.pc = "decoded" /\ codec.input = "encoded") => RoundTripped
  /\ (codec.pc = "decoded" /\ codec.input = "unknown") => ~codec.result.ok

\* The part of it that holds: the same for the messages of 4 bytes or more.
C26_RoundTripFromFourBytes ==
  /\ (codec.pc = "encoded" /\ codec.input = "encoded") =>
       (codec.encoded.ok <=> codec.type # UnknownName)
  /\ (codec.pc = "decoded" /\ codec.input = "encoded"
        /\ Len(codec.encoded.out) >= 4) => RoundTripped
  /\ (codec.pc = "decoded" /\ codec.input = "unknown") => ~codec.result.ok

\* ---------------------------------------------------------------------------
\* bincode.ts: BincodeReader
\* ---------------------------------------------------------------------------

\* new BincodeReader(data).
NewBincodeReader(data) == [data |-> data, pos |-> 0]

\* The getters offset, remaining and length.
Offset(r) == r.pos
Remaining(r) == Len(r.data) - r.pos
Length(r) == Len(r.data)

\* data.slice(from, to) for 0 <= from.
Slice(data, from, to) == SubSeq(data, from + 1, Min(to, Len(data)))

\* A call that returned, leaving the reader as r, with a value of bytes bytes,
\* and one that threw deserializationFailed.
Done(r, bytes) == [rdr |-> r, ok |-> TRUE, bytes |-> bytes]
Thrown(r) == [rdr |-> r, ok |-> FALSE, bytes |-> 0]

\* reset.
ReaderReset(r) == Done([r EXCEPT !.pos = 0], 0)

\* skip(n).
ReaderSkip(r, n) ==
  IF r.pos + n > Len(r.data) THEN Thrown(r)
  ELSE Done([r EXCEPT !.pos = @ + n], n)

\* readU8 .. readBytes: the read function at the position, which the bytes
\* read are added to.
ReaderRead(r, fn) ==
  LET result == ReadFor(fn, r.data, r.pos)
  IN  IF ~result.ok THEN Thrown(r)
      ELSE Done([r EXCEPT !.pos = @ + result.bytesRead], result.bytesRead)

\* readRawBytes(length).
ReaderReadRawBytes(r, length) ==
  IF r.pos + length > Len(r.data) THEN Thrown(r)
  ELSE Done([r EXCEPT !.pos = @ + length],
            Len(Slice(r.data, r.pos, r.pos + length)))

\* peekU8.
ReaderPeekU8(r) == IF r.pos >= Len(r.data) THEN Thrown(r) ELSE Done(r, 0)

\* peekU32 adding the bytes read to the position.
ReaderPeekU32Consuming(r) ==
  LET result == ReadU32(r.data, r.pos)
  IN  IF ~result.ok THEN Thrown(r) ELSE Done([r EXCEPT !.pos = @ + 4], 0)

\* peekU32.
ReaderPeekU32(r) ==
  LET result == ReadU32(r.data, r.pos)
  IN  IF ~result.ok THEN Thrown(r) ELSE Done(r, 0)

\* slice(length): the bytes of the sub-reader are those passed over.
ReaderSlice(r, length) ==
  IF r.pos + length > Len(r.data) THEN Thrown(r)
  ELSE Done([r EXCEPT !.pos = @ + length],
            Length(NewBincodeReader(Slice(r.data, r.pos, r.pos + length))))

\* The data read: an Option<u32>, a varint of 5 bytes and a string.
ReaderData ==
  ToUint8Array(WriteString(WriteVarintU32(WriteOptionU32(<<>>, <<Num(0, 5)>>),
                                          Num(0, 300)),
                           <<97, 98>>))

\* The greatest number of calls made on the reader.
MaxCalls == 3
\* The arguments of skip, and those of readRawBytes and slice.
SkipArgs == {0, 1, 5, Len(ReaderData), Len(ReaderData) + 1}
LengthArgs == SkipArgs \cup {-1, -5}

InitReader ==
  /\ opt = [p \in Peers |-> [psk |-> NoPsk, maxPacketSize |-> DEFAULT_MAX_PACKET_SIZE]]
  /\ peer = [p \in Peers |-> Fresh]
  /\ wire = [p \in Peers |-> <<>>]
  /\ atk = Idle
  /\ ad = [p \in Peers |-> NewAdapter]
  /\ rd = [p \in Peers |-> NewReader]
  /\ sent = [p \in Peers |-> <<>>]
  /\ chunks = 0
  /\ chan = Intact
  /\ wr = [p \in Peers |-> NotWriting]
  /\ client = NoClient
  /\ codec = [rdr |-> NewBincodeReader(ReaderData), calls |-> 0, negative |-> FALSE,
              op |-> "new", ok |-> TRUE, before |-> 0, bytes |-> 0]

\* A call op on the reader has had the outcome c; negative: it or an earlier
\* call was passed a negative length.  No call is followed once the position
\* is before the data.
Called(op, c, negative) ==
  codec' = [rdr |-> c.rdr, calls |-> codec.calls + 1,
            negative |-> codec.negative \/ negative,
            op |-> op, ok |-> c.ok, before |-> codec.rdr.pos, bytes |-> c.bytes]

CanCall == codec.calls < MaxCalls /\ codec.rdr.pos >= 0

RdrRead ==
  /\ CanCall
  /\ \E fn \in ReadFns : Called("read", ReaderRead(codec.rdr, fn), FALSE)
  /\ UNCHANGED <<client, opt, peer, wire, atk, ad, rd, sent, chunks, chan, wr>>

RdrPeekU8 ==
  /\ CanCall
  /\ Called("peek", ReaderPeekU8(codec.rdr), FALSE)
  /\ UNCHANGED <<client, opt, peer, wire, atk, ad, rd, sent, chunks, chan, wr>>

RdrPeekU32 ==
  /\ CanCall
  /\ Called("peek", ReaderPeekU32(codec.rdr), FALSE)
  /\ UNCHANGED <<client, opt, peer, wire, atk, ad, rd, sent, chunks, chan, wr>>

RdrSkip ==
  /\ CanCall
  /\ \E n \in SkipArgs : Called("skip", ReaderSkip(codec.rdr, n), FALSE)
  /\ UNCHANGED <<client, opt, peer, wire, atk, ad, rd, sent, chunks, chan, wr>>

RdrReset ==
  /\ CanCall
  /\ Called("reset", ReaderReset(codec.rdr), FALSE)
  /\ UNCHANGED <<client, opt, peer, wire, atk, ad, rd, sent, chunks, chan, wr>>

RdrReadRawBytes ==
  /\ CanCall
  /\ \E length \in LengthArgs :
       Called("read", ReaderReadRawBytes(codec.rdr, length), length < 0)
  /\ UNCHANGED <<client, opt, peer, wire, atk, ad, rd, sent, chunks, chan, wr>>

RdrSlice ==
  /\ CanCall
  /\ \E length \in LengthArgs :
       Called("read", ReaderSlice(codec.rdr, length), length < 0)
  /\ UNCHANGED <<client, opt, peer, wire, atk, ad, rd, sent, chunks, chan, wr>>

NextReader ==
  \/ RdrRead
  \/ RdrPeekU8
  \/ RdrPeekU32
  \/ RdrSkip
  \/ RdrReset
  \/ RdrReadRawBytes
  \/ RdrSlice

SpecReader == InitReader /\ [][NextReader]_vars

\* The position is within the data and the last call has moved it as it
\* should: a read that returned by the bytes of its value, a skip that returned
\* by its argument, a reset to 0, a peek and a call that threw not at all.
PositionTracked ==
  /\ 0 <= Offset(codec.rdr) /\ Offset(codec.rdr) <= Length(codec.rdr)
  /\ Remaining(codec.rdr) = Length(codec.rdr) - Offset(codec.rdr)
  /\ (codec.op \in {"read", "skip"} /\ codec.ok) =>
       Offset(codec.rdr) = codec.before + codec.bytes
  /\ ~codec.ok => Offset(codec.rdr) = codec.before
  /\ codec.op = "peek" => Offset(codec.rdr) = codec.before
  /\ codec.op = "reset" => Offset(codec.rdr) = 0

\* C27 as stated: the position is tracked after any sequence of read, peek,
\* skip(n >= 0), reset, readRawBytes and slice calls.
C27_PositionTracked == PositionTracked

\* C27: the position is tracked after any sequence of read, peek, skip(n >= 0),
\* reset, readRawBytes(length >= 0) and slice(length >= 0) calls.
C27_PositionTrackedNaturalLengths == ~codec.negative => PositionTracked

\* Three calls with no negative length, the last one a read of the 10 bytes of
\* the string, which has reached the end of the data.
C27_Witness ==
  /\ codec.calls = 3
  /\ ~codec.negative
  /\ codec.op = "read"
  /\ codec.ok
  /\ codec.before = 10
  /\ codec.bytes = 10
  /\ Offset(codec.rdr) = Length(codec.rdr)

\* ---------------------------------------------------------------------------
\* crypto.ts: XChaCha20Poly1305Cipher alone
\* ---------------------------------------------------------------------------

\* The cipher of @noble/ciphers is taken as an ideal AEAD: a ciphertext is
\* opened by the key and the nonce it was sealed with and by no others, and
\* changed bytes are no ciphertext.

\* The number of bytes of what encrypt returned: the plaintext and the tag.
CiphertextLen(ct) == PtLen(SubSeq(ct, 2, 3)) + TagLen

\* The keys (32 bytes) and the nonces (24 bytes) of the calls.
CipherKeys == {HkdfExpand(<<TDh, 1, 2>>, <<TSha>>, info) : info \in {InfoEnc, InfoDec}}
CipherNonces == {FrameNonce(i) : i \in 1..2}
\* The plaintexts: the empty one, and two of each other length.
CipherPlaintexts ==
  {Plaintext(0, 0)}
    \cup {Plaintext(n, c) : n \in {1, 4, DEFAULT_MAX_PACKET_SIZE}, c \in 1..2}

InitCipher ==
  /\ opt = [p \in Peers |-> [psk |-> NoPsk, maxPacketSize |-> DEFAULT_MAX_PACKET_SIZE]]
  /\ peer = [p \in Peers |-> Fresh]
  /\ wire = [p \in Peers |-> <<>>]
  /\ atk = Idle
  /\ ad = [p \in Peers |-> NewAdapter]
  /\ rd = [p \in Peers |-> NewReader]
  /\ sent = [p \in Peers |-> <<>>]
  /\ chunks = 0
  /\ chan = Intact
  /\ wr = [p \in Peers |-> NotWriting]
  /\ client = NoClient
  /\ \E key \in CipherKeys, nonce \in CipherNonces, pt \in CipherPlaintexts :
       codec = [pc |-> "call", key |-> key, nonce |-> nonce, pt |-> pt,
                ct |-> <<>>, altered |-> "none",
                with |-> [key |-> key, nonce |-> nonce, ct |-> <<>>],
                result |-> [ok |-> FALSE, pt |-> <<>>]]

\* new XChaCha20Poly1305Cipher(key).encrypt(nonce, plaintext) is called.
CipherEncrypt ==
  /\ codec.pc = "call"
  /\ LET ct == Encrypt(codec.key, codec.nonce, codec.pt)
     IN  codec' = [codec EXCEPT !.pc = "encrypted", !.ct = ct, !.with.ct = ct]
  /\ UNCHANGED <<client, opt, peer, wire, atk, ad, rd, sent, chunks, chan, wr>>

\* The decryption is to be made with another key, with another nonce, or of
\* the ciphertext with a bit changed.
CipherAlter ==
  /\ codec.pc = "encrypted"
  /\ codec.altered = "none"
  /\ \/ \E key \in CipherKeys \ {codec.key} :
          codec' = [codec EXCEPT !.altered = "key", !.with.key = key]
     \/ \E nonce \in CipherNonces \ {codec.nonce} :
          codec' = [codec EXCEPT !.altered = "nonce", !.with.nonce = nonce]
     \/ codec' = [codec EXCEPT !.altered = "ciphertext",
                               !.with.ct = <<TTampered>> \o codec.ct]
  /\ UNCHANGED <<client, opt, peer, wire, atk, ad, rd, sent, chunks, chan, wr>>

\* new XChaCha20Poly1305Cipher(key).decrypt(nonce, ciphertext) is called.
CipherDecrypt ==
  /\ codec.pc = "encrypted"
  /\ codec' = [codec EXCEPT
       !.pc = "decrypted",
       !.result = Decrypt(codec.with.key, codec.with.nonce, codec.with.ct)]
  /\ UNCHANGED <<client, opt, peer, wire, atk, ad, rd, sent, chunks, chan, wr>>

NextCipher ==
  \/ CipherEncrypt
  \/ CipherAlter
  \/ CipherDecrypt

SpecCipher == InitCipher /\ [][NextCipher]_vars

HasTranscript(p) == peer[p].transcript # <<>>

\* C29: a peer that has built its transcript has built the public key of the
\* initiator followed by that of the responder, whatever its own role; two
\* peers that have built it have the same transcript, hence the same hash of
\* it, and with the same PSK the same MAC of it.
C29_SameTranscript ==
  /\ \A p \in Peers :
       HasTranscript(p) =>
         \E i \in Peers :
           /\ peer[i].role = "initiator"
           /\ peer[Other(i)].role = "responder"
           /\ peer[p].transcript = Pub(SecretOf(i)) \o Pub(SecretOf(Other(i)))
  /\ (HasTranscript("A") /\ HasTranscript("B")) =>
       /\ peer["A"].transcript = peer["B"].transcript
       /\ Sha256Hash(peer["A"].transcript) = Sha256Hash(peer["B"].transcript)
       /\ (HasMac(peer["A"].psk) /\ peer["A"].psk = peer["B"].psk) =>
            peer["A"].mac = peer["B"].mac

\* Both peers have established the stream with the same PSK, B being the
\* initiator, and have built the same transcript and MAC.
C29_Witness ==
  /\ peer["A"].pc = "established" /\ peer["B"].pc = "established"
  /\ peer["B"].role = "initiator"
  /\ HasMac(peer["A"].psk)
  /\ peer["A"].transcript = Pub(SecretOf("B")) \o Pub(SecretOf("A"))
  /\ peer["B"].transcript = peer["A"].transcript
  /\ peer["A"].mac = peer["B"].mac

\* ---------------------------------------------------------------------------
\* The limits of the writer and of the reader
\* ---------------------------------------------------------------------------

\* C30: with the same maxPacketSize M on both sides, the frame of every
\* writePacket of A that succeeded (every plaintext of 0..M bytes) is accepted
\* by the readPacket of B that reads it, which returns the plaintext: none is
\* rejected with MessageTooLarge.
C30_LimitsCompatible ==
  LET w == SelectSeq(sent["A"], IsOk)
      r == rd["B"].results
  IN  peer["A"].maxPacketSize = peer["B"].maxPacketSize =>
        \A i \in 1..Len(r) :
          /\ i <= Len(w)
          /\ PtLen(w[i].pt) \in 0..peer["A"].maxPacketSize
          /\ r[i].err # "MessageTooLarge"
          /\ r[i] = Returned(w[i].pt)

\* The part of it that holds: the same for the plaintexts of at most M - 16
\* bytes.
C30_CompatibleBelowTag ==
  LET w == SelectSeq(sent["A"], IsOk)
      r == rd["B"].results
  IN  \A i \in 1..Len(r) :
        /\ i <= Len(w)
        /\ PtLen(w[i].pt) <= peer["B"].maxPacketSize - TagLen =>
             r[i] = Returned(w[i].pt)
        /\ PtLen(w[i].pt) > peer["B"].maxPacketSize - TagLen =>
             r[i] = Threw("MessageTooLarge")

\* ---------------------------------------------------------------------------
\* crypto.ts: the sizes the functions accept
\* ---------------------------------------------------------------------------

\* A Uint8Array of n bytes, each of them b.
Bytes(n, b) == [i \in 1..n |-> b]

\* CryptoError.invalidKeyMaterial and CryptoError.operationFailure: the name is
\* set by the constructor.
InvalidKeyMaterial(message) ==
  [name |-> "CryptoError", kind |-> "Invalid key material", message |-> message]
OperationFailure(operation, details) ==
  [name |-> "CryptoError", kind |-> operation, message |-> details]

\* throw ClavisError.crypto(error): a ClavisError with the error as its cause;
\* nothing is returned.
ThrowCrypto(error) ==
  [thrown |-> TRUE, name |-> "ClavisError", cause |-> error, value |-> <<>>]
\* ClavisError.cryptoFailure(operation, details), thrown.
CryptoFailure(operation, details) == ThrowCrypto(OperationFailure(operation, details))
\* return value
ReturnBytes(value) ==
  [thrown |-> FALSE, name |-> "", cause |-> [name |-> ""], value |-> value]

\* computeSharedSecret on byte arrays: x25519.getSharedSecret refuses the
\* public keys of small order, of which the all-zero one is drawn.
SharedSecretOfBytes(secretKey, peerPublicKey) ==
  IF Len(secretKey) # 32
  THEN ThrowCrypto(InvalidKeyMaterial("Secret key must be 32 bytes"))
  ELSE IF Len(peerPublicKey) # 32
  THEN ThrowCrypto(InvalidKeyMaterial("Public key must be 32 bytes"))
  ELSE IF peerPublicKey = Bytes(32, 0)
  THEN CryptoFailure("key exchange", "Failed to compute shared secret")
  ELSE ReturnBytes(<<TDh>> \o secretKey \o peerPublicKey)

\* new XChaCha20Poly1305Cipher(key): this.key is assigned after the check;
\* Null stands for no object.
NewCipher(key) ==
  IF Len(key) # 32
  THEN [result |-> ThrowCrypto(InvalidKeyMaterial(
                     "Key must be 32 bytes for XChaCha20-Poly1305")),
        cipher |-> <<Null>>]
  ELSE [result |-> ReturnBytes(<<>>), cipher |-> key]

\* An hkdfExpand without the check of the salt: hkdf takes a salt of any
\* length.
HkdfExpandAnySalt(sharedSecret, salt, info) ==
  IF Len(sharedSecret) # 32
  THEN ThrowCrypto(InvalidKeyMaterial("Shared secret must be 32 bytes"))
  ELSE ReturnBytes(HkdfExpand(sharedSecret, salt, info))

\* hkdfExpand on byte arrays.
HkdfExpandOfBytes(sharedSecret, salt, info) ==
  IF Len(sharedSecret) # 32
  THEN ThrowCrypto(InvalidKeyMaterial("Shared secret must be 32 bytes"))
  ELSE IF Len(salt) # 32
  THEN ThrowCrypto(InvalidKeyMaterial("Salt must be 32 bytes"))
  ELSE ReturnBytes(HkdfExpand(sharedSecret, salt, info))

\* cipher.encrypt(nonce, plaintext) of the cipher with the key this.key.
CipherEncryptOfBytes(key, nonce, plaintext) ==
  IF Len(nonce) # 24
  THEN CryptoFailure("encryption", "Nonce must be 24 bytes")
  ELSE ReturnBytes(Encrypt(key, nonce, plaintext))

\* cipher.decrypt(nonce, ciphertext): the failure of the library is caught and
\* thrown again as a failure of the decryption.
CipherDecryptOfBytes(key, nonce, ciphertext) ==
  IF Len(nonce) # 24
  THEN CryptoFailure("decryption", "Nonce must be 24 bytes")
  ELSE IF ~Decrypt(key, nonce, ciphertext).ok
  THEN CryptoFailure("decryption", "Decryption failed")
  ELSE ReturnBytes(Decrypt(key, nonce, ciphertext).pt)

\* The lengths of the arguments: around 32 and 24, and none.
Sizes == {0, 16, 24, 31, 32, 33}
MaxFill == 1
SizedBytes == {Bytes(n, b) : n \in Sizes, b \in 0..MaxFill}
FacadeInfos == {InfoEnc, InfoDec}
FacadePlaintexts == {Plaintext(0, 0), Plaintext(4, 1)}

NoCall == [op |-> "none", a |-> <<>>, b |-> <<>>, c |-> <<>>,
           result |-> ReturnBytes(<<>>)]

InitFacade ==
  /\ opt = [p \in Peers |-> [psk |-> NoPsk, maxPacketSize |-> DEFAULT_MAX_PACKET_SIZE]]
  /\ peer = [p \in Peers |-> Fresh]
  /\ wire = [p \in Peers |-> <<>>]
  /\ atk = Idle
  /\ ad = [p \in Peers |-> NewAdapter]
  /\ rd = [p \in Peers |-> NewReader]
  /\ sent = [p \in Peers |-> <<>>]
  /\ chunks = 0
  /\ chan = Intact
  /\ wr = [p \in Peers |-> NotWriting]
  /\ client = NoClient
  /\ codec = [pc |-> "facade", cipher |-> <<Null>>, was |-> <<Null>>,
              ct |-> <<>>, call |-> NoCall]

\* A call of a function or of a method: was is the cipher before the call.
Call(op, a, b, c, result) ==
  [codec EXCEPT !.was = codec.cipher,
                !.call = [op |-> op, a |-> a, b |-> b, c |-> c, result |-> result]]

FacadeComputeSharedSecret ==
  /\ codec.pc = "facade"
  /\ \E secretKey \in SizedBytes, peerPublicKey \in SizedBytes :
       codec' = Call("computeSharedSecret", secretKey, peerPublicKey, <<>>,
                     SharedSecretOfBytes(secretKey, peerPublicKey))
  /\ UNCHANGED <<client, opt, peer, wire, atk, ad, rd, sent, chunks, chan, wr>>

FacadeHkdfExpand ==
  /\ codec.pc = "facade"
  /\ \E sharedSecret \in SizedBytes, salt \in SizedBytes, info \in FacadeInfos :
       codec' = Call("hkdfExpand", sharedSecret, salt, info,
                     HkdfExpandOfBytes(sharedSecret, salt, info))
  /\ UNCHANGED <<client, opt, peer, wire, atk, ad, rd, sent, chunks, chan, wr>>

FacadeNewCipher ==
  /\ codec.pc = "facade"
  /\ \E key \in SizedBytes :
       LET new == NewCipher(key)
       IN  codec' = [Call("new", key, <<>>, <<>>, new.result) EXCEPT
                       !.cipher = IF new.result.thrown THEN codec.cipher
                                  ELSE new.cipher,
                       !.ct = IF new.result.thrown THEN codec.ct ELSE <<>>]
  /\ UNCHANGED <<client, opt, peer, wire, atk, ad, rd, sent, chunks, chan, wr>>

\* The ciphertext of a call that succeeded is kept for the decryptions.
FacadeEncrypt ==
  /\ codec.pc = "facade"
  /\ codec.cipher # <<Null>>
  /\ \E nonce \in SizedBytes, plaintext \in FacadePlaintexts :
       LET result == CipherEncryptOfBytes(codec.cipher, nonce, plaintext)
       IN  codec' = [Call("encrypt", nonce, plaintext, <<>>, result) EXCEPT
                       !.ct = IF result.thrown THEN codec.ct ELSE result.value]
  /\ UNCHANGED <<client, opt, peer, wire, atk, ad, rd, sent, chunks, chan, wr>>

FacadeDecrypt ==
  /\ codec.pc = "facade"
  /\ codec.cipher # <<Null>>
  /\ codec.ct # <<>>
  /\ \E nonce \in SizedBytes :
       codec' = Call("decrypt", nonce, codec.ct, <<>>,
                     CipherDecryptOfBytes(codec.cipher, nonce, codec.ct))
  /\ UNCHANGED <<client, opt, peer, wire, atk, ad, rd, sent, chunks, chan, wr>>

NextFacade ==
  \/ FacadeComputeSharedSecret
  \/ FacadeHkdfExpand
  \/ FacadeNewCipher
  \/ FacadeEncrypt
  \/ FacadeDecrypt

SpecFacade == InitFacade /\ [][NextFacade]_vars

\* The call of the state had an argument of a size the function refuses.
Malformed(call) ==
  \/ call.op \in {"computeSharedSecret", "hkdfExpand"}
       /\ (Len(call.a) # 32 \/ Len(call.b) # 32)
  \/ call.op = "new" /\ Len(call.a) # 32
  \/ call.op \in {"encrypt", "decrypt"} /\ Len(call.a) # 24

\* C31: a call of computeSharedSecret with a secret or public key of a length
\* other than 32, of the constructor of the cipher with a key of a length other
\* than 32, of hkdfExpand with a shared secret or salt of a length other than
\* 32, or of encrypt or decrypt with a nonce of a length other than 24, throws
\* a ClavisError whose cause is a CryptoError, returns nothing and leaves the
\* cipher as it was (none, after a constructor that failed first).
C31_MalformedSizesRejected ==
  Malformed(codec.call) =>
    /\ codec.call.result.thrown
    /\ codec.call.result.name = "ClavisError"
    /\ codec.call.result.cause.name = "CryptoError"
    /\ codec.call.result.value = <<>>
    /\ codec.cipher = codec.was

\* hkdfExpand has refused a salt of 31 bytes given with a shared secret of 32,
\* the cipher made before being as it was.
C31_Witness ==
  /\ codec.call.op = "hkdfExpand"
  /\ Len(codec.call.a) = 32
  /\ Len(codec.call.b) = 31
  /\ codec.call.result.thrown
  /\ codec.call.result.cause.name = "CryptoError"
  /\ codec.cipher # <<Null>>
  /\ codec.cipher = codec.was

\* ---------------------------------------------------------------------------
\* ClavisClient: connection management
\* ---------------------------------------------------------------------------

\* The client is the record of the fields of a ClavisClient (stream, which is
\* set and cleared with reader, is left out), of its options, and of what the
\* runtime holds for it:
\*   sock[s]   the socket made by the s-th execution of _connect: net is the
\*             state of the socket ("lost": ended or destroyed, its 'close'
\*             event not yet emitted), pc the position of that _connect, via
\*             its caller, loop and on the position of the startReadingPackets
\*             it called and the reader that loop awaits a packet of;
\*   orphans   the timers pending that reconnectTimer no longer refers to
\*             (reconnectTimer is TRUE for a timer that is pending: the handle
\*             of one that has fired, which clearTimeout ignores, is as null);
\*   log       what has been observed of it.
\* A reader and a writer are named by the socket of their stream.


NewClient(enabled, maxRetries) ==
  [status |-> "disconnected", socket |-> Null, reader |-> Null, writer |-> Null,
   readingPackets |-> FALSE, reconnectAttempt |-> 0, reconnectTimer |-> FALSE,
   manualDisconnect |-> FALSE, enabled |-> enabled, maxRetries |-> maxRetries,
   sock |-> <<>>, orphans |-> 0,
   log |-> [scheduled |-> 0, failed |-> 0, maxError |-> FALSE, manual |-> FALSE,
            lost |-> FALSE, disconnects |-> 0, timers |-> 0,
            send |-> "none", stale |-> FALSE]]

\* The _connect executions that have neither returned nor thrown.
Connecting(c) ==
  {s \in 1..Len(c.sock) : c.sock[s].pc \in {"createSocket", "rejected", "handshake"}}

\* The timers of scheduleReconnect that are pending.
PendingTimers(c) == c.orphans + (IF c.reconnectTimer THEN 1 ELSE 0)

\* setStatus
SetStatus(c, status) == [c EXCEPT !.status = status]

\* socket.destroy(): the 'close' event of an open socket is still to come.
Destroy(c, s) ==
  IF c.sock[s].net = "open" THEN [c EXCEPT !.sock[s].net = "lost"] ELSE c

\* cleanup
Cleanup(c) ==
  LET c1 == [c EXCEPT !.readingPackets = FALSE, !.reader = Null, !.writer = Null]
  IN  IF c.socket # Null THEN [Destroy(c1, c.socket) EXCEPT !.socket = Null] ELSE c1

\* A scheduleReconnect that sets the timer whatever the number of attempts.
ScheduleReconnectUnbounded(c) ==
  [SetStatus(c, "reconnecting") EXCEPT
     !.reconnectAttempt = c.reconnectAttempt + 1,
     !.reconnectTimer = TRUE,
     !.orphans = c.orphans + (IF c.reconnectTimer THEN 1 ELSE 0),
     !.log.scheduled = c.log.scheduled + 1,
     !.log.timers = IF c.log.lost THEN c.log.timers + 1 ELSE c.log.timers]

\* scheduleReconnect: the timer set before stays pending when reconnectTimer is
\* assigned again.
ScheduleReconnect(c) ==
  IF c.reconnectAttempt >= c.maxRetries
  THEN [c EXCEPT !.log.maxError = TRUE]
  ELSE [SetStatus(c, "reconnecting") EXCEPT
          !.reconnectAttempt = c.reconnectAttempt + 1,
          !.reconnectTimer = TRUE,
          !.orphans = c.orphans + (IF c.reconnectTimer THEN 1 ELSE 0),
          !.log.scheduled = c.log.scheduled + 1,
          !.log.timers = IF c.log.lost THEN c.log.timers + 1 ELSE c.log.timers]

\* A handleDisconnect that returns unless the client is connected.
HandleDisconnectWhenConnected(c) ==
  IF c.status # "connected" THEN c
  ELSE LET c1 == [SetStatus(Cleanup(c), "disconnected") EXCEPT
                    !.log.disconnects =
                       IF c.log.lost THEN c.log.disconnects + 1 ELSE c.log.disconnects]
       IN  IF c.enabled /\ ~c.manualDisconnect THEN ScheduleReconnect(c1) ELSE c1

\* handleDisconnect
HandleDisconnect(c) ==
  IF c.status = "disconnected" THEN c
  ELSE LET c1 == [SetStatus(Cleanup(c), "disconnected") EXCEPT
                    !.log.disconnects =
                       IF c.log.lost THEN c.log.disconnects + 1 ELSE c.log.disconnects]
       IN  IF c.enabled /\ ~c.manualDisconnect THEN ScheduleReconnect(c1) ELSE c1

\* cancelReconnect
CancelReconnect(c) ==
  IF c.reconnectTimer THEN [c EXCEPT !.reconnectTimer = FALSE] ELSE c

\* _connect up to its first await: the status is set and createSocket makes
\* the socket.
StartConnect(c, via) ==
  [SetStatus(c, "connecting") EXCEPT
     !.sock = Append(c.sock, [net |-> "connecting", pc |-> "createSocket",
                              via |-> via, loop |-> "none", on |-> 0]),
     !.log.lost = FALSE, !.log.disconnects = 0, !.log.timers = 0]

\* The condition of the while of startReadingPackets and what follows it: the
\* loop l calls readPacket of the reader the client has now, or leaves and
\* clears readingPackets.
LoopNext(c, l) ==
  IF c.readingPackets /\ c.reader # Null /\ c.status = "connected"
  THEN [c EXCEPT !.sock[l].loop = "reading", !.sock[l].on = c.reader]
  ELSE [c EXCEPT !.sock[l].loop = "none", !.sock[l].on = 0,
                 !.readingPackets = FALSE]

\* startReadingPackets, called by the _connect s, up to its first await.
StartReadingPackets(c, s) ==
  IF c.readingPackets \/ c.reader = Null THEN c
  ELSE LoopNext([c EXCEPT !.readingPackets = TRUE], s)

\* The rest of _connect s after the handshake has succeeded.
Connected(c, s) ==
  LET c1 == [c EXCEPT !.reader = s, !.writer = s, !.reconnectAttempt = 0,
                      !.sock[s].pc = "done", !.sock[s].via = "none",
                      !.log.scheduled = 0, !.log.failed = 0,
                      !.log.maxError = FALSE, !.log.manual = FALSE]
  IN  StartReadingPackets(SetStatus(c1, "connected"), s)

\* The catch of _connect s and what its caller does with the error thrown:
\* connect passes it on, the callback of the timer schedules the next attempt.
Caught(c, s) ==
  LET c1 == [Cleanup(c) EXCEPT !.sock[s].pc = "done", !.sock[s].via = "none"]
  IN  IF c.sock[s].via = "timer"
      THEN IF ~c1.manualDisconnect
           THEN ScheduleReconnect([c1 EXCEPT !.log.failed = c.log.failed + 1])
           ELSE c1
      ELSE c1

\* The sockets one client makes and the largest maxRetries of the options.
MaxSockets == 2
MaxRetries == 2

InitClient ==
  /\ opt = [p \in Peers |-> [psk |-> NoPsk, maxPacketSize |-> DEFAULT_MAX_PACKET_SIZE]]
  /\ peer = [p \in Peers |-> Fresh]
  /\ wire = [p \in Peers |-> <<>>]
  /\ atk = Idle
  /\ ad = [p \in Peers |-> NewAdapter]
  /\ rd = [p \in Peers |-> NewReader]
  /\ sent = [p \in Peers |-> <<>>]
  /\ chunks = 0
  /\ chan = Intact
  /\ wr = [p \in Peers |-> NotWriting]
  /\ codec = NoCodec
  /\ \/ \E maxRetries \in 0..MaxRetries : client = NewClient(TRUE, maxRetries)
     \/ client = NewClient(FALSE, MaxRetries)

Sockets == 1..Len(client.sock)

\* log.send tells what a send did only in the state that send leads to.
Step(c) == [c EXCEPT !.log.send = "none"]

\* connect() that goes on to _connect.
ClientConnect ==
  /\ client.status \notin {"connected", "connecting"}
  /\ Len(client.sock) < MaxSockets
  /\ client' = Step(StartConnect([client EXCEPT !.manualDisconnect = FALSE], "connect"))
  /\ UNCHANGED <<opt, peer, wire, atk, ad, rd, sent, chunks, chan, wr, codec>>

\* The 'connect' event of the socket: createSocket resolves, _connect assigns
\* the socket and starts the handshake.
SocketConnect(s) ==
  /\ client.sock[s].net = "connecting"
  /\ client.sock[s].pc = "createSocket"
  /\ client' = Step([client EXCEPT !.sock[s].net = "open", !.sock[s].pc = "handshake",
                                   !.socket = s])
  /\ UNCHANGED <<opt, peer, wire, atk, ad, rd, sent, chunks, chan, wr, codec>>

\* The 'error' event of a socket that does not connect, or the timeout that
\* destroys it: createSocket rejects.
SocketError(s) ==
  /\ client.sock[s].net = "connecting"
  /\ client.sock[s].pc = "createSocket"
  /\ client' = Step([client EXCEPT !.sock[s].net = "lost", !.sock[s].pc = "rejected"])
  /\ UNCHANGED <<opt, peer, wire, atk, ad, rd, sent, chunks, chan, wr, codec>>

\* _connect resumes in its catch after createSocket has rejected.
ConnectCatch(s) ==
  /\ client.sock[s].pc = "rejected"
  /\ client' = Step(Caught(client, s))
  /\ UNCHANGED <<opt, peer, wire, atk, ad, rd, sent, chunks, chan, wr, codec>>

\* EncryptedStream.new resolves: the handshake has been made on an open socket.
HandshakeOk(s) ==
  /\ client.sock[s].pc = "handshake"
  /\ client.sock[s].net = "open"
  /\ client' = Step(Connected(client, s))
  /\ UNCHANGED <<opt, peer, wire, atk, ad, rd, sent, chunks, chan, wr, codec>>

\* EncryptedStream.new rejects.
HandshakeFail(s) ==
  /\ client.sock[s].pc = "handshake"
  /\ client' = Step(Caught(client, s))
  /\ UNCHANGED <<opt, peer, wire, atk, ad, rd, sent, chunks, chan, wr, codec>>

\* The 'close' event of a socket that has ended or has been destroyed.
SocketClose(s) ==
  /\ client.sock[s].net = "lost"
  /\ client' = Step(HandleDisconnect([client EXCEPT !.sock[s].net = "closed"]))
  /\ UNCHANGED <<opt, peer, wire, atk, ad, rd, sent, chunks, chan, wr, codec>>

\* The loss of an established connection is observed from here on.
Lose(c, s) ==
  IF c.status = "connected" /\ c.socket = s
  THEN [c EXCEPT !.log.lost = TRUE, !.log.disconnects = 0, !.log.timers = 0]
  ELSE c

\* The other end closes the connection: no 'error' event, and the adapter has
\* no handler of 'end' or 'close', so a read that is pending stays pending.
PeerEnd(s) ==
  /\ client.sock[s].net = "open"
  /\ client' = Step([Lose(client, s) EXCEPT !.sock[s].net = "lost"])
  /\ UNCHANGED <<opt, peer, wire, atk, ad, rd, sent, chunks, chan, wr, codec>>

\* The connection is reset: the 'error' event (ECONNRESET) rejects the
\* readPacket of the loops that await one of this socket.
PeerReset(s) ==
  /\ client.sock[s].net = "open"
  /\ client' = [Step(Lose(client, s)) EXCEPT
       !.sock = [l \in DOMAIN client.sock |->
                   LET k == IF l = s THEN [client.sock[l] EXCEPT !.net = "lost"]
                            ELSE client.sock[l]
                   IN  IF k.loop = "reading" /\ k.on = s
                       THEN [k EXCEPT !.loop = "rejected"] ELSE k]]
  /\ UNCHANGED <<opt, peer, wire, atk, ad, rd, sent, chunks, chan, wr, codec>>

\* The catch of the loop l for the error of a reset, which isConnectionClosed:
\* handleDisconnect unless readingPackets has been cleared; the loop ends.
LoopCatch(l) ==
  /\ client.sock[l].loop = "rejected"
  /\ LET c1 == IF client.readingPackets
               THEN [HandleDisconnect(client) EXCEPT
                       !.log.stale = client.log.stale
                          \/ (client.status = "connected" /\ client.socket # l)]
               ELSE client
     IN  client' = [Step(c1) EXCEPT !.sock[l].loop = "none", !.sock[l].on = 0,
                                    !.readingPackets = FALSE]
  /\ UNCHANGED <<opt, peer, wire, atk, ad, rd, sent, chunks, chan, wr, codec>>

\* readPacket of the loop l returns a packet, which is emitted, or throws a
\* ClavisError (a frame that is too large or does not decrypt), which is no
\* StreamError and not isConnectionClosed and is emitted as an error: the loop
\* goes on; with readingPackets cleared the catch leaves the loop as the
\* condition of the while does.
LoopPacket(l) ==
  /\ client.sock[l].loop = "reading"
  /\ client.sock[client.sock[l].on].net = "open"
  /\ client' = Step(LoopNext(client, l))
  /\ UNCHANGED <<opt, peer, wire, atk, ad, rd, sent, chunks, chan, wr, codec>>

\* The callback of a timer of scheduleReconnect runs _connect.
TimerFire ==
  /\ PendingTimers(client) > 0
  /\ Len(client.sock) < MaxSockets
  /\ \/ /\ client.reconnectTimer
        /\ client' = Step(StartConnect(
             [client EXCEPT !.reconnectTimer = FALSE], "timer"))
     \/ /\ client.orphans > 0
        /\ client' = Step(StartConnect(
             [client EXCEPT !.orphans = client.orphans - 1], "timer"))
  /\ UNCHANGED <<opt, peer, wire, atk, ad, rd, sent, chunks, chan, wr, codec>>

\* disconnect()
ClientDisconnect ==
  /\ client' = [SetStatus(Cleanup(CancelReconnect(
                   [client EXCEPT !.manualDisconnect = TRUE])), "disconnected")
                 EXCEPT !.log.manual = TRUE, !.log.lost = FALSE,
                        !.log.disconnects = 0, !.log.timers = 0,
                        !.log.send = "none"]
  /\ UNCHANGED <<opt, peer, wire, atk, ad, rd, sent, chunks, chan, wr, codec>>

\* send(packet): it throws "Not connected" before any write; writePacket
\* writes on an open socket, and on a socket that is lost it throws an error
\* that isConnectionClosed, for which send calls handleDisconnect.
ClientSend ==
  /\ client' =
       IF client.writer = Null \/ client.status # "connected"
       THEN [client EXCEPT !.log.send = "NotConnected"]
       ELSE IF client.sock[client.writer].net = "open"
       THEN [client EXCEPT !.log.send = "written"]
       ELSE [HandleDisconnect(client) EXCEPT !.log.send = "failed"]
  /\ UNCHANGED <<opt, peer, wire, atk, ad, rd, sent, chunks, chan, wr, codec>>

\* What happens without a call of disconnect().
NextAuto ==
  \/ ClientConnect
  \/ \E s \in Sockets : SocketConnect(s)
  \/ \E s \in Sockets : SocketError(s)
  \/ \E s \in Sockets : ConnectCatch(s)
  \/ \E s \in Sockets : HandshakeOk(s)
  \/ \E s \in Sockets : HandshakeFail(s)
  \/ \E s \in Sockets : SocketClose(s)
  \/ \E s \in Sockets : PeerEnd(s)
  \/ \E s \in Sockets : PeerReset(s)
  \/ \E l \in Sockets : LoopCatch(l)
  \/ \E l \in Sockets : LoopPacket(l)
  \/ TimerFire
  \/ ClientSend

\* The client with calls of disconnect().
NextClient ==
  \/ NextAuto
  \/ ClientDisconnect

SpecClient == InitClient /\ [][NextClient]_vars

\* The client on which disconnect() is never called.
SpecAuto == InitClient /\ [][NextAuto]_vars

\* C32: since the last connection that succeeded no more than maxRetries
\* reconnections have been scheduled; the counter is 0 whenever the client is
\* connected; and when maxRetries reconnections (and at least one) have failed
\* since then, with no disconnect() in between, then the error "Max
\* reconnection attempts reached" has been emitted, unless a timer is still
\* pending or a _connect still under way.
C32_ReconnectBounded ==
  /\ client.log.scheduled <= client.maxRetries
  /\ client.log.scheduled = client.reconnectAttempt
  /\ client.status = "connected" => client.reconnectAttempt = 0
  /\ (client.log.failed > 0 /\ client.log.failed >= client.maxRetries
        /\ ~client.log.manual) =>
       \/ client.log.maxError
       \/ PendingTimers(client) > 0
       \/ Connecting(client) # {}
  /\ client.log.maxError => client.reconnectAttempt >= client.maxRetries

\* With maxRetries 1, the one reconnection scheduled has failed, the error has
\* been emitted and no timer is pending.
C32_Witness ==
  /\ client.maxRetries = 1
  /\ client.log.scheduled = 1
  /\ client.log.failed = 1
  /\ client.log.maxError
  /\ PendingTimers(client) = 0
  /\ Connecting(client) = {}

\* C33: from disconnect() until connect() is next called (manualDisconnect is
\* set by the one and cleared by the other) the status is "disconnected" and
\* the client holds no socket, reader or writer.
C33_NoReconnectAfterDisconnect ==
  client.manualDisconnect =>
    /\ client.status = "disconnected"
    /\ client.socket = Null
    /\ client.reader = Null
    /\ client.writer = Null

\* C34: a send that has written found the client connected with a writer, a
\* send with the client not connected or without a writer has not written and
\* has thrown "Not connected"; a connected client has a socket, a reader and a
\* writer, a disconnected one has none of them.
C34_SendOnlyConnected ==
  /\ client.log.send = "written" =>
       client.status = "connected" /\ client.writer # Null
  /\ (client.log.send # "none"
        /\ (client.status # "connected" \/ client.writer = Null)) =>
       client.log.send \in {"NotConnected", "failed"}
  /\ client.status = "connected" =>
       client.socket # Null /\ client.reader # Null /\ client.writer # Null
  /\ client.status = "disconnected" =>
       client.socket = Null /\ client.reader = Null /\ client.writer = Null

\* The part of it that holds: what send does.
C34_SendNotConnected ==
  /\ client.log.send = "written" =>
       client.status = "connected" /\ client.writer # Null
  /\ (client.log.send # "none"
        /\ (client.status # "connected" \/ client.writer = Null)) =>
       client.log.send \in {"NotConnected", "failed"}

\* The _connect executions that await their socket or their handshake.
Awaiting(c) == {s \in Connecting(c) : c.sock[s].pc # "rejected"}

\* C35: with no call of disconnect(), the _connect executions that await their
\* socket or their handshake and the timers pending are together at most one, and the loss of a connection is followed, before the next
\* _connect, by at most one "disconnect" event and one timer.
C35_OneAttemptOutstanding ==
  /\ Cardinality(Awaiting(client)) + PendingTimers(client) <= 1
  /\ client.log.lost => client.log.disconnects <= 1 /\ client.log.timers <= 1

\* C37: no two loops await a packet of the same reader, and the loop started
\* for a connection awaits packets of the reader of that connection only and
\* has not disconnected another connection.
C37_OneLoopPerReader ==
  /\ \A l, m \in Sockets :
       (client.sock[l].loop = "reading" /\ client.sock[m].loop = "reading"
          /\ client.sock[l].on = client.sock[m].on) => l = m
  /\ \A l \in Sockets : client.sock[l].loop = "reading" => client.sock[l].on = l
  /\ ~client.log.stale

\* The runtime emits the 'close' event of every socket that has ended or has
\* been destroyed, and resumes every _connect whose createSocket has rejected.
CloseEmitted == \E s \in Sockets : SocketClose(s)
CatchResumed == \E s \in Sockets : ConnectCatch(s)

SpecLive == SpecClient /\ WF_vars(CloseEmitted) /\ WF_vars(CatchResumed)

\* C36: when the status is "connecting" and no _connect awaits its socket or
\* its handshake any more (the attempt has failed), the status becomes
\* "disconnected" or "reconnecting", in which connect() starts a new attempt.
C36_FailedConnectNotWedged ==
  (client.status = "connecting" /\ Awaiting(client) = {})
    ~> (client.status \in {"disconnected", "reconnecting"})

\* A handshake has failed and _connect has thrown: the status is still
\* "connecting", the 'close' event of the socket it destroyed is to come.
C36_Witness ==
  /\ client.status = "connecting"
  /\ Connecting(client) = {}
  /\ Len(client.sock) = 1
  /\ client.sock[1].net = "lost"
  /\ client.socket = Null

\* ---------------------------------------------------------------------------
\* createStreamAdapter: the read that is pending
\* ---------------------------------------------------------------------------

\* The adapter alone as in SpecAdapter, its stream raising 'error' events as
\* well; rd[p].lens holds the lengths of the reads that were left pending and
\* rd[p].results the handler that completed each of them, with the length of
\* the read it completed and the number of bytes it resolved it with.

\* An 'error' handler that rejects the read and leaves it set.
OnErrorKeepsRead(a) == [ad |-> a, rejected |-> a.readRejecter]

\* The 'error' handler: a pending read is cleared and rejected.
OnError(a) ==
  IF a.readRejecter
  THEN [ad |-> [a EXCEPT !.readResolver = FALSE, !.readRejecter = FALSE,
                         !.readLength = Null],
        rejected |-> TRUE]
  ELSE [ad |-> a, rejected |-> FALSE]

\* The 'error' events that reject a read.
MaxErrors == 1

Completion(n, bytes, by) == [n |-> n, bytes |-> Avail(bytes), by |-> by]
ByError(r) == r.by = "error"

\* The caller of p calls adapter.read, no read being pending.
PendRead(p) ==
  /\ ~ad[p].readResolver
  /\ \E n \in 1..MaxReadLen :
       LET r == Read(ad[p], n)
       IN /\ ad' = [ad EXCEPT ![p] = r.ad]
          /\ rd' = [rd EXCEPT
               ![p].lens = IF r.resolved THEN @ ELSE Append(@, n)]
  /\ UNCHANGED <<client, codec, opt, peer, wire, atk, sent, chunks, chan, wr>>

\* A 'data' event at p with the next k bytes of the stream.
PendData(p) ==
  /\ \E k \in 1..Min(MaxChunkLen, Avail(wire[Other(p)])) :
       LET d == OnData(ad[p], Take(wire[Other(p)], k))
       IN /\ ad' = [ad EXCEPT ![p] = d.ad]
          /\ rd' = [rd EXCEPT ![p].results =
                      IF d.resolved
                      THEN Append(@, Completion(ad[p].readLength, d.result, "data"))
                      ELSE @]
          /\ wire' = [wire EXCEPT ![Other(p)] = Drop(@, k)]
  /\ UNCHANGED <<client, codec, opt, peer, atk, sent, chunks, chan, wr>>

\* An 'error' event at p.
PendError(p) ==
  /\ Len(SelectSeq(rd[p].results, ByError)) < MaxErrors
  /\ LET e == OnError(ad[p])
     IN /\ ad' = [ad EXCEPT ![p] = e.ad]
        /\ rd' = [rd EXCEPT ![p].results =
                    IF e.rejected
                    THEN Append(@, Completion(ad[p].readLength, <<>>, "error"))
                    ELSE @]
  /\ UNCHANGED <<client, codec, opt, peer, wire, atk, sent, chunks, chan, wr>>

NextPending ==
  \/ PendRead("B")
  \/ PendData("B")
  \/ PendError("B")

SpecPending == InitAdapter /\ [][NextPending]_vars

\* C38: readResolver, readRejecter and readLength are all null or all set;
\* while they are set fewer bytes than readLength are buffered; and each read
\* that was left pending and is pending no more was completed once, by the
\* 'data' handler or by the 'error' handler, the read that is pending by
\* neither.
C38_PendingReadInvariant ==
  LET a == ad["B"]
      pended == rd["B"].lens
      done == rd["B"].results
  IN  /\ a.readResolver = a.readRejecter
      /\ a.readResolver = (a.readLength # Null)
      /\ a.readResolver => TotalBuffered(a.readBuffer) < a.readLength
      /\ Len(done) + (IF a.readResolver THEN 1 ELSE 0) = Len(pended)
      /\ \A i \in 1..Len(done) :
           /\ done[i].n = pended[i]
           /\ done[i].by \in {"data", "error"}
           /\ done[i].by = "data" => done[i].bytes = done[i].n

\* A read left pending has been rejected by an 'error' event, the next one
\* resolved by a 'data' event, and a third one is pending with a byte buffered.
C38_Witness ==
  LET done == rd["B"].results
  IN  /\ Len(done) = 2
      /\ done[1].by = "error"
      /\ done[2].by = "data"
      /\ ad["B"].readResolver
      /\ ad["B"].readLength = 2
      /\ TotalBuffered(ad["B"].readBuffer) = 1

====
